---- MODULE Spec2Model ----
(***************************************************************************)
(* Video integrity and biomechanical analysis pipeline of utkrsh:          *)
(* services/cheat_detection.py, services/ai_analysis.py and the analysis   *)
(* request of routers/videos.py.                                           *)
(*                                                                         *)
(* Numbers.  Python floats are modelled by exact rationals <<num, den>>    *)
(* in lowest terms.  A histogram correlation is kept as the exact value    *)
(* a / sqrt(b1 * b2) and compared without taking the root.                 *)
(* Indices.  Python lists are 0-based, TLA+ sequences 1-based: position j  *)
(* of a sequence is Python index j-1.  Frame numbers inside anomaly        *)
(* entries are the Python indices the code prints.                         *)
(***************************************************************************)
EXTENDS Integers, Sequences, FiniteSets, TLC

VARIABLES
    pc,             \* "idle" before the call of the specification, "done" after
    frames,         \* argument of detect_frame_duplication (sampled gray frames)
    dup_result,     \* value returned by detect_frame_duplication
    pose_frames,    \* argument of analyze_posture: per frame, what pose.process gives
    posture_result, \* outcome of analyze_posture
    video,          \* what detect_cheating finds behind video_url
    dc_result,      \* outcome of detect_cheating
    log,            \* messages written by logger.error
    pair_flow,      \* per frame pair, what calculate_optical_flow and np.mean give
    motion_result,  \* outcome of detect_unnatural_movement
    skill_in,       \* skill_assessment argument of predict_injury_risk
    risk_result,    \* value returned by predict_injury_risk
    sample_in,      \* the file and the stride given to extract_frames
    sample_result,  \* outcome of extract_frames
    av_input,       \* what analyze_video finds behind video_url, and its arguments
    av_result,      \* outcome of analyze_video
    av_download,    \* outcome of download_video while analyze_video waits on it
    tmp_files,      \* the temporary files that exist
    landmarks_in,   \* argument of calculate_posture_metrics
    metrics_result, \* value returned by calculate_posture_metrics
    disk,           \* what each temporary file holds, in the concurrent calls
    runs,           \* per concurrent analyze_video call: its position and locals
    db,             \* the stored tables: the videos row, the video_analyses rows
    request,        \* the analyze_uploaded_video request: caller, and its locals
    response,       \* what the analyze_uploaded_video request answered
    upload,         \* the upload_video request: its inputs, position and answer
    query           \* the read request (get_video_analysis, ...) and its answer

otherVars ==
    <<pair_flow, motion_result, skill_in, risk_result, sample_in, sample_result,
      av_input, av_result, av_download, tmp_files, landmarks_in, metrics_result, disk, runs, db, request, response, upload, query>>

vars == <<pc, frames, dup_result, pose_frames, posture_result, video, dc_result, log,
          otherVars>>

-----------------------------------------------------------------------------
(* Bounds *)

MaxFrames == 4        \* longest frame list over FrameSet given to detect_frame_duplication
MaxLongFrames == 11   \* longest frame list over TwoFrames given to detect_frame_duplication
FramePixels == 5      \* pixels of a modelled frame (224*224 in the program)
MaxPoseFrames == 3    \* longest frame list given to analyze_posture
MaxSrcFrames == 6     \* longest source video given to detect_cheating
MaxMag == 1           \* largest mean optical-flow magnitude of a frame pair
MaxMotionFrames == 7  \* longest frame list given to detect_unnatural_movement
MaxMotionMag == 3     \* largest pair magnitude given to detect_unnatural_movement
MaxSampleSrc == 5     \* longest source given to extract_frames
MaxStride == 3        \* largest frame_interval given to extract_frames
MaxVideoFrames == 11  \* longest source video given to analyze_video

-----------------------------------------------------------------------------
(* Arithmetic helpers *)

NoValue == [none |-> TRUE]

RECURSIVE GCD(_, _)
GCD(a, b) == IF b = 0 THEN a ELSE GCD(b, a % b)

\* the float n / d  (d > 0, n >= 0), in lowest terms
Rat(n, d) == LET g == GCD(n, d) IN <<n \div g, d \div g>>

RatLess(x, y) == x[1] * y[2] < y[1] * x[2]

\* Python's min(a, b) and max(a, b): the first argument unless the second
\* is strictly smaller (larger)
PyMin(a, b) == IF RatLess(b, a) THEN b ELSE a
PyMax(a, b) == IF RatLess(a, b) THEN b ELSE a

RatZero == Rat(0, 1)
RatOne == Rat(1, 1)

\* a/b > c/d for positive b, d and non-negative a, c, by Euclid's algorithm
\* (the cross products do not fit the checker's integers)
RECURSIVE GtFrac(_, _, _, _)
GtFrac(a, b, c, d) ==
    LET q1 == a \div b
        q2 == c \div d
        r1 == a % b
        r2 == c % d
    IN  IF q1 # q2 THEN q1 > q2
        ELSE IF r1 = 0 THEN FALSE
        ELSE IF r2 = 0 THEN TRUE
        ELSE GtFrac(d, r2, b, r1)

\* the sum of the values of a function with a finite domain
RECURSIVE SumFn(_)
SumFn(f) ==
    IF DOMAIN f = {} THEN 0
    ELSE LET x == CHOOSE y \in DOMAIN f : TRUE
         IN  f[x] + SumFn([y \in DOMAIN f \ {x} |-> f[y]])

-----------------------------------------------------------------------------
(* Frames and the histogram similarity (cheat_detection.py) *)

HistBins == 256

\* a gray frame whose first k pixels have gray level 1, the others level 0
Image(k) == [p \in 1..FramePixels |-> IF p <= k THEN 1 ELSE 0]

FrameSet == {Image(0), Image(1), Image(2), Image(FramePixels)}

\* a black and a white frame, for the long frame lists: equal frames have
\* similarity 1, different ones 0
TwoFrames == {Image(0), Image(FramePixels)}

GrayLevels(frame) == {frame[p] : p \in DOMAIN frame}

\* cv2.calcHist([frame], [0], None, [256], [0, 256]), bin g
calcHist(frame, g) == Cardinality({p \in DOMAIN frame : frame[p] = g})

\* the same function ending in min(similarity, 0) instead of max
calculate_frame_similarity_min(frame1, frame2) ==
    LET G == GrayLevels(frame1) \cup GrayLevels(frame2)
        H1(g) == calcHist(frame1, g)
        H2(g) == calcHist(frame2, g)
        P12(g) == H1(g) * H2(g)
        P11(g) == H1(g) * H1(g)
        P22(g) == H2(g) * H2(g)
        s1 == SumFn([g \in G |-> H1(g)])
        s2 == SumFn([g \in G |-> H2(g)])
        a == HistBins * SumFn([g \in G |-> P12(g)]) - s1 * s2
        b1 == HistBins * SumFn([g \in G |-> P11(g)]) - s1 * s1
        b2 == HistBins * SumFn([g \in G |-> P22(g)]) - s2 * s2
    IN  IF b1 = 0 \/ b2 = 0 THEN [a |-> 0, b1 |-> 1, b2 |-> 1]
        ELSE IF a >= 0 THEN [a |-> 0, b1 |-> 1, b2 |-> 1]
        ELSE [a |-> a, b1 |-> b1, b2 |-> b2]

\* The similarity a / sqrt(b1 * b2) of two frames, 0 when a <= 0.
\* cv2.normalize(.., 0, 1, NORM_MINMAX) maps a histogram h to
\* (h - min) / (max - min), and the correlation of cv2.compareHist is
\* unchanged by such a map, so it is computed on the counts:
\* with s12 = sum h1*h2, s1 = sum h1, N = 256 it is
\*   (N*s12 - s1*s2) / sqrt((N*s11 - s1*s1) * (N*s22 - s2*s2)).
\* Bins outside the gray levels of the two frames add 0 to every sum.
\* compareHist gives 1 when the denominator is 0.
calculate_frame_similarity(frame1, frame2) ==
    LET G == GrayLevels(frame1) \cup GrayLevels(frame2)
        H1(g) == calcHist(frame1, g)
        H2(g) == calcHist(frame2, g)
        P12(g) == H1(g) * H2(g)
        P11(g) == H1(g) * H1(g)
        P22(g) == H2(g) * H2(g)
        s1 == SumFn([g \in G |-> H1(g)])
        s2 == SumFn([g \in G |-> H2(g)])
        a == HistBins * SumFn([g \in G |-> P12(g)]) - s1 * s2
        b1 == HistBins * SumFn([g \in G |-> P11(g)]) - s1 * s1
        b2 == HistBins * SumFn([g \in G |-> P22(g)]) - s2 * s2
    IN  IF b1 = 0 \/ b2 = 0 THEN [a |-> 1, b1 |-> 1, b2 |-> 1]
        ELSE IF a <= 0 THEN [a |-> 0, b1 |-> 1, b2 |-> 1]   \* max(similarity, 0)
        ELSE [a |-> a, b1 |-> b1, b2 |-> b2]

\* similarity > n/d   (n, d > 0):  (d*a)^2 > n^2 * b1 * b2
SimExceeds(sim, n, d) ==
    /\ sim.a > 0
    /\ GtFrac(d * sim.a, n * sim.b1, n * sim.b2, d * sim.a)

\* similarity >= n/d   (n, d > 0)
SimAtLeast(sim, n, d) ==
    /\ sim.a > 0
    /\ ~ GtFrac(n * sim.b2, d * sim.a, d * sim.a, n * sim.b1)

\* A similarity halfway between two tenths of a percent, (2k+1)/2000, is a
\* double: the product similarity*100 is a double next to k/10 + 0.05, and
\* the format rounds that double.  The k in 950..999 whose halfway value is
\* printed as k+1 tenths; for the others it is printed as k tenths.
SimTieUp ==
    {951, 954, 956, 957, 958, 959, 961, 963, 964, 966, 967, 968, 969, 971,
     973, 974, 976, 977, 978, 979, 981, 983, 984, 985, 986, 987, 988, 989,
     990, 991, 993, 994, 995, 996, 997, 998, 999}

\* the digits of f"{similarity*100:.1f}" as tenths of a percent, for a
\* similarity above 0.95
SimTenths(sim) ==
    CHOOSE k \in 950..1000 :
        /\ IF (k - 1) \in SimTieUp
           THEN SimAtLeast(sim, 2 * k - 1, 2000)
           ELSE SimExceeds(sim, 2 * k - 1, 2000)
        /\ IF k \in SimTieUp
           THEN ~ SimAtLeast(sim, 2 * k + 1, 2000)
           ELSE ~ SimExceeds(sim, 2 * k + 1, 2000)

threshold == <<19, 20>>      \* 0.95, the default of detect_frame_duplication

\* f"Frames {i-1} and {i} are {similarity*100:.1f}% similar"
DupAnomaly(i, sim) ==
    [kind |-> "duplicate", first |-> i - 1, second |-> i, tenths |-> SimTenths(sim)]

\* the loop "for i in range(1, len(frames))" from Python index i on, with the
\* values of duplicates and anomalies at that point
RECURSIVE DupLoop(_, _, _, _)
DupLoop(fs, i, duplicates, anomalies) ==
    IF i >= Len(fs) THEN [duplicates |-> duplicates, anomalies |-> anomalies]
    ELSE LET similarity == calculate_frame_similarity(fs[i], fs[i + 1])
         IN  IF SimExceeds(similarity, threshold[1], threshold[2])
             THEN DupLoop(fs, i + 1, duplicates + 1,
                          Append(anomalies, DupAnomaly(i, similarity)))
             ELSE DupLoop(fs, i + 1, duplicates, anomalies)

\* variants of detect_frame_duplication: the flag raised from 10% on
\* (>= instead of >), the confidence divided by the number of pairs, and
\* the early return reporting confidence 1.0
detect_frame_duplication_ge(fs) ==
    IF Len(fs) < 2
    THEN [is_duplicated |-> FALSE, confidence |-> RatZero,
          duplicate_count |-> 0, anomalies |-> <<>>]
    ELSE LET r == DupLoop(fs, 1, 0, <<>>)
         IN  [is_duplicated |-> 10 * r.duplicates >= Len(fs),
              confidence |-> PyMin(Rat(r.duplicates, Len(fs)), RatOne),
              duplicate_count |-> r.duplicates,
              anomalies |-> r.anomalies]

detect_frame_duplication_per_pair(fs) ==
    IF Len(fs) < 2
    THEN [is_duplicated |-> FALSE, confidence |-> RatZero,
          duplicate_count |-> 0, anomalies |-> <<>>]
    ELSE LET r == DupLoop(fs, 1, 0, <<>>)
         IN  [is_duplicated |-> 10 * r.duplicates > Len(fs),
              confidence |-> PyMin(Rat(r.duplicates, Len(fs) - 1), RatOne),
              duplicate_count |-> r.duplicates,
              anomalies |-> r.anomalies]

\* the same function keeping only the newest anomaly text
detect_frame_duplication_last_only(fs) ==
    IF Len(fs) < 2
    THEN [is_duplicated |-> FALSE, confidence |-> RatZero,
          duplicate_count |-> 0, anomalies |-> <<>>]
    ELSE LET r == DupLoop(fs, 1, 0, <<>>)
         IN  [is_duplicated |-> 10 * r.duplicates > Len(fs),
              confidence |-> PyMin(Rat(r.duplicates, Len(fs)), RatOne),
              duplicate_count |-> r.duplicates,
              anomalies |-> IF r.anomalies = <<>> THEN <<>>
                            ELSE << r.anomalies[Len(r.anomalies)] >>]

detect_frame_duplication_sure(fs) ==
    IF Len(fs) < 2
    THEN [is_duplicated |-> FALSE, confidence |-> RatOne,
          duplicate_count |-> 0, anomalies |-> <<>>]
    ELSE LET r == DupLoop(fs, 1, 0, <<>>)
         IN  [is_duplicated |-> 10 * r.duplicates > Len(fs),
              confidence |-> PyMin(Rat(r.duplicates, Len(fs)), RatOne),
              duplicate_count |-> r.duplicates,
              anomalies |-> r.anomalies]

\* line 88, duplicates > (len(frames) * 0.1), is 10 * duplicates > len: the
\* double 0.1 is above 1/10 by less than 6e-18, so len * 0.1 rounds to a
\* double that is at least len / 10 and below (len + 1) / 10, and no
\* integer lies between the two.
detect_frame_duplication(fs) ==
    IF Len(fs) < 2
    THEN [is_duplicated |-> FALSE, confidence |-> RatZero,
          duplicate_count |-> 0, anomalies |-> <<>>]
    ELSE LET r == DupLoop(fs, 1, 0, <<>>)
         IN  [is_duplicated |-> 10 * r.duplicates > Len(fs),  \* duplicates > len * 0.1
              confidence |-> PyMin(Rat(r.duplicates, Len(fs)), RatOne),
              duplicate_count |-> r.duplicates,
              anomalies |-> r.anomalies]

-----------------------------------------------------------------------------
(* Motion anomalies (cheat_detection.py) *)

\* What calculate_optical_flow followed by np.mean gives for one frame pair:
\* the mean magnitude, or an exception of the primitive.  The magnitude is
\* an np.float32, and so are mean_movement, std_movement and both sides of
\* the test of line 127.  tie_above is the outcome of that test for this
\* pair when abs(movement - mean) and 2 * std are equal on paper and not 0:
\* the rounded float32 values then decide (Float32TieAbove).
\* FlowSet is used for at most one pair, where the test is not reached.
FlowSet ==
    {[raises |-> TRUE, magnitude |-> 0, tie_above |-> FALSE]}
        \cup {[raises |-> FALSE, magnitude |-> m, tie_above |-> FALSE] :
                  m \in 0..MaxMag}

\* the float32 outcome of abs(ms[j] - mean) > 2 * std, with np.mean and
\* np.std over ms, where the two sides are equal on paper: tabulated for
\* magnitudes 0..4 and up to 8 pairs.  It is True for five pairs, one of
\* magnitude 0 or 1 and four of a magnitude 3 above it, at the single one
\* (mean 2.4 or 3.4, std 1.2); False for every other tie.
Float32TieAbove(ms, j) ==
    /\ Len(ms) = 5
    /\ ms[j] \in {0, 1}
    /\ \A i \in DOMAIN ms : i # j => ms[i] = ms[j] + 3

Raised(exc) == [raised |-> TRUE, exc |-> exc]
Returned(v) == [raised |-> FALSE, value |-> v]

\* f"Unnatural movement detected between frames {i} and {i+1}"
MotionAnomaly(i) == [kind |-> "movement", first |-> i, second |-> i + 1]

\* the members of K among 1..n, in increasing order
SelectIdx(n, K) ==
    LET F[i \in 0..n] ==
            IF i = 0 THEN <<>>
            ELSE IF i \in K THEN Append(F[i - 1], i) ELSE F[i - 1]
    IN  F[n]

\* the same function with the confidence divided without the test
\* "if movement_changes"
detect_unnatural_movement_unguarded(fs, flow) ==
    LET n == IF Len(fs) = 0 THEN 0 ELSE Len(fs) - 1
        movement_changes == [j \in 1..n |-> flow[j].magnitude]
        S == SumFn(movement_changes)
        Q == SumFn([j \in 1..n |-> movement_changes[j] * movement_changes[j]])
        Outlier(j) ==
            LET d == n * movement_changes[j] - S
                V == n * Q - S * S
            IN  d * d > 4 * V \/ (d * d = 4 * V /\ d # 0 /\ flow[j].tie_above)
        idx == IF n > 1 THEN SelectIdx(n, {j \in 1..n : Outlier(j)}) ELSE <<>>
        anomalies == [k \in 1..Len(idx) |-> MotionAnomaly(idx[k] - 1)]
    IN  IF \E j \in 1..n : flow[j].raises
        THEN Raised("PrimitiveFailure")
        ELSE IF n = 0 THEN Raised("ZeroDivisionError")
        ELSE Returned(
               [is_unnatural |-> Len(anomalies) > 0,
                confidence |-> PyMin(Rat(Len(anomalies), n), RatOne),
                anomalies |-> anomalies])

\* the same function with the confidence divided by len(frames)
detect_unnatural_movement_per_frame(fs, flow) ==
    LET n == IF Len(fs) = 0 THEN 0 ELSE Len(fs) - 1
        movement_changes == [j \in 1..n |-> flow[j].magnitude]
        S == SumFn(movement_changes)
        Q == SumFn([j \in 1..n |-> movement_changes[j] * movement_changes[j]])
        Outlier(j) ==
            LET d == n * movement_changes[j] - S
                V == n * Q - S * S
            IN  d * d > 4 * V \/ (d * d = 4 * V /\ d # 0 /\ flow[j].tie_above)
        idx == IF n > 1 THEN SelectIdx(n, {j \in 1..n : Outlier(j)}) ELSE <<>>
        anomalies == [k \in 1..Len(idx) |-> MotionAnomaly(idx[k] - 1)]
    IN  IF \E j \in 1..n : flow[j].raises
        THEN Raised("PrimitiveFailure")
        ELSE Returned(
               [is_unnatural |-> Len(anomalies) > 0,
                confidence |-> IF n > 0 THEN PyMin(Rat(Len(anomalies), Len(fs)), RatOne)
                               ELSE RatZero,
                anomalies |-> anomalies])

\* the same function with the test abs(movement - mean) > std
detect_unnatural_movement_1std(fs, flow) ==
    LET n == IF Len(fs) = 0 THEN 0 ELSE Len(fs) - 1
        movement_changes == [j \in 1..n |-> flow[j].magnitude]
        S == SumFn(movement_changes)
        Q == SumFn([j \in 1..n |-> movement_changes[j] * movement_changes[j]])
        Outlier(j) ==
            LET d == n * movement_changes[j] - S
            IN  d * d > n * Q - S * S
        idx == IF n > 1 THEN SelectIdx(n, {j \in 1..n : Outlier(j)}) ELSE <<>>
        anomalies == [k \in 1..Len(idx) |-> MotionAnomaly(idx[k] - 1)]
    IN  IF \E j \in 1..n : flow[j].raises
        THEN Raised("PrimitiveFailure")
        ELSE Returned(
               [is_unnatural |-> Len(anomalies) > 0,
                confidence |-> IF n > 0 THEN PyMin(Rat(Len(anomalies), n), RatOne)
                               ELSE RatZero,
                anomalies |-> anomalies])

\* the same function with the test abs(movement - mean) >= 2 * std
detect_unnatural_movement_ge(fs, flow) ==
    LET n == IF Len(fs) = 0 THEN 0 ELSE Len(fs) - 1
        movement_changes == [j \in 1..n |-> flow[j].magnitude]
        S == SumFn(movement_changes)
        Q == SumFn([j \in 1..n |-> movement_changes[j] * movement_changes[j]])
        Outlier(j) ==
            LET d == n * movement_changes[j] - S
            IN  d * d >= 4 * (n * Q - S * S)
        idx == IF n > 1 THEN SelectIdx(n, {j \in 1..n : Outlier(j)}) ELSE <<>>
        anomalies == [k \in 1..Len(idx) |-> MotionAnomaly(idx[k] - 1)]
    IN  IF \E j \in 1..n : flow[j].raises
        THEN Raised("PrimitiveFailure")
        ELSE Returned(
               [is_unnatural |-> Len(anomalies) > 0,
                confidence |-> IF n > 0 THEN PyMin(Rat(Len(anomalies), n), RatOne)
                               ELSE RatZero,
                anomalies |-> anomalies])

\* fs: the frames; flow[j]: the primitive's outcome for frames j-1 and j
\* (Python indices), one per consecutive pair.
\* abs(movement - mean) > 2 * std, with mean = S/n and std^2 = Q/n - (S/n)^2,
\* is (n*movement - S)^2 > 4 * (n*Q - S*S) on paper; where the two are
\* equal, the float32 rounding decides (tie_above).  With all magnitudes
\* equal both sides are 0 and the test is False.
detect_unnatural_movement(fs, flow) ==
    LET n == IF Len(fs) = 0 THEN 0 ELSE Len(fs) - 1
        movement_changes == [j \in 1..n |-> flow[j].magnitude]
        S == SumFn(movement_changes)
        Q == SumFn([j \in 1..n |-> movement_changes[j] * movement_changes[j]])
        Outlier(j) ==
            LET d == n * movement_changes[j] - S
                V == n * Q - S * S
            IN  d * d > 4 * V \/ (d * d = 4 * V /\ d # 0 /\ flow[j].tie_above)
        idx == IF n > 1 THEN SelectIdx(n, {j \in 1..n : Outlier(j)}) ELSE <<>>
        anomalies == [k \in 1..Len(idx) |-> MotionAnomaly(idx[k] - 1)]
    IN  IF \E j \in 1..n : flow[j].raises
        THEN Raised("PrimitiveFailure")
        ELSE Returned(
               [is_unnatural |-> Len(anomalies) > 0,
                confidence |-> IF n > 0 THEN PyMin(Rat(Len(anomalies), n), RatOne)
                               ELSE RatZero,
                anomalies |-> anomalies])

\* placeholder: a constant, used by nobody
analyze_movement_speed(fs) ==
    [average_speed |-> RatZero, speed_consistency |-> RatZero, anomalies |-> <<>>]

-----------------------------------------------------------------------------
(* Frame sampling (both modules) *)

frame_interval_integrity == 5     \* default of cheat_detection.extract_frames
frame_interval_posture == 10      \* default of ai_analysis.extract_frames

\* the same function keeping a frame when (frame_count + 1) % frame_interval == 0
extract_frames_late(src, openable, frame_interval) ==
    LET idx == SelectIdx(Len(src), {j \in 1..Len(src) : j % frame_interval = 0})
    IN  IF openable THEN [k \in 1..Len(idx) |-> src[idx[k]]] ELSE <<>>

\* src: the decodable frames of the file, already at the target size and
\* colour space; openable: cap.isOpened().  The frames whose Python index
\* is a multiple of frame_interval, in order; none when the capture does
\* not open.
extract_frames(src, openable, frame_interval) ==
    LET idx == SelectIdx(Len(src), {j \in 1..Len(src) : (j - 1) % frame_interval = 0})
    IN  IF openable THEN [k \in 1..Len(idx) |-> src[idx[k]]] ELSE <<>>

-----------------------------------------------------------------------------
(* The integrity verdict (cheat_detection.py) *)

\* the names bound in the module cheat_detection: its imports, its logger
\* and its functions
CheatDetectionGlobals ==
    {"cv2", "np", "Dict", "Any", "logging", "cosine_similarity", "logger",
     "detect_cheating", "extract_frames", "detect_frame_duplication",
     "calculate_frame_similarity", "detect_unnatural_movement",
     "calculate_optical_flow", "analyze_movement_speed"}

FailOpen ==
    [is_cheating_detected |-> FALSE,
     confidence |-> RatZero,
     detected_anomalies |-> << [text |-> "Analysis failed"] >>,
     frames_analyzed |-> 0,
     duplicate_frames |-> 0]

\* the statements after the two lookups of the try block: the three
\* analyses and the combined result
Compose(fs, flow) ==
    LET frame_duplication == detect_frame_duplication(fs)
        unnatural_movement == detect_unnatural_movement(fs, flow)
        um == unnatural_movement.value
        is_cheating == frame_duplication.is_duplicated \/ um.is_unnatural
    IN  IF unnatural_movement.raised THEN unnatural_movement
        ELSE Returned(
               [is_cheating_detected |-> is_cheating,
                confidence |-> PyMax(frame_duplication.confidence, um.confidence),
                detected_anomalies |-> frame_duplication.anomalies \o um.anomalies,
                frames_analyzed |-> Len(fs),
                duplicate_frames |-> frame_duplication.duplicate_count])

\* the same body in a module that imports download_video from ai_analysis
DetectCheatingBody_imported(v) ==
    IF ~ v.download_ok THEN Raised("HTTPError")
    ELSE Compose(extract_frames(v.src, v.openable, frame_interval_integrity), v.flow)

\* the body of the try block.  v is what lies behind video_url:
\* download_ok (the GET succeeds), openable, src (the frames of the file),
\* flow (the optical-flow outcome of each sampled pair).
\* The first statement evaluates the name download_video.
DetectCheatingBody(v) ==
    IF "download_video" \notin CheatDetectionGlobals THEN Raised("NameError")
    ELSE IF ~ v.download_ok THEN Raised("HTTPError")
    ELSE Compose(extract_frames(v.src, v.openable, frame_interval_integrity), v.flow)

\* the same function with the handler of analyze_video, which logs and
\* re-raises
detect_cheating_reraise(v) ==
    LET body == DetectCheatingBody(v)
    IN  IF body.raised
        THEN [outcome |-> body,
              logged |-> << [msg |-> "Cheat detection failed", exc |-> body.exc] >>]
        ELSE [outcome |-> body, logged |-> <<>>]

\* outcome: what the caller gets; logged: what logger.error received
detect_cheating(v) ==
    LET body == DetectCheatingBody(v)
    IN  IF body.raised
        THEN [outcome |-> Returned(FailOpen),
              logged |-> << [msg |-> "Cheat detection failed", exc |-> body.exc] >>]
        ELSE [outcome |-> body, logged |-> <<>>]

-----------------------------------------------------------------------------
(* Posture (ai_analysis.py) *)

\* y coordinates in thousandths of the image height
posture_threshold == 50      \* 0.05
LeftY == 500
\* 450 and 550: 0.05 from 0.5 on paper; as doubles 0.5 - 0.45 is below 0.05
\* and 0.55 - 0.5 is above it
ShoulderYs == {450, 500, 550}
HipYs == {500, 560}
KneeYs == {500, 560}

LandmarkSets ==
    {[LEFT_SHOULDER |-> LeftY, RIGHT_SHOULDER |-> rs,
      LEFT_HIP |-> LeftY, RIGHT_HIP |-> rh,
      LEFT_KNEE |-> LeftY, RIGHT_KNEE |-> rk] :
        rs \in ShoulderYs, rh \in HipYs, rk \in KneeYs}

\* what pose.process gives for one frame: landmarks, no landmarks, or an
\* exception of the primitive
PoseSet ==
    {[kind |-> "none"], [kind |-> "raise"]}
        \cup {[kind |-> "landmarks", y |-> l] : l \in LandmarkSets}

Abs(x) == IF x < 0 THEN -x ELSE x
Max(a, b) == IF a > b THEN a ELSE b

Min(a, b) == IF a < b THEN a ELSE b

\* The landmarks are doubles y/1000 and the code compares
\* abs(left.y - right.y) with the double 0.05.  The subtraction rounds, so
\* for two coordinates 50 thousandths apart the result is above, equal to
\* or below 0.05 depending on the lower coordinate (0..950): the two sets
\* list the lower coordinates that give "above" and "equal"; every other
\* one gives "below".  For all other pairs in 0..1000 the doubles compare
\* as the thousandths do.
DeltaTieAbove ==
    {51} \cup (86..90) \cup (118..121) \cup (141..153) \cup (172..184)
         \cup (204..231) \cup (282..293) \cup (344..356) \cup (407..418)
         \cup (469..512) \cup (563..637) \cup (688..762) \cup (813..887)
         \cup (938..950)

DeltaTieEqual ==
    {0} \cup (4..8) \cup (11..20) \cup (26..35) \cup (43..50) \cup (59..67)
        \cup (71..85) \cup (102..117)

\* abs(a - b) > 0.05 as the doubles give it
AboveThreshold(a, b) ==
    IF Abs(a - b) = posture_threshold
    THEN Min(a, b) \in DeltaTieAbove
    ELSE Abs(a - b) > posture_threshold

\* the same function with the tests "diff >= 0.05"
calculate_posture_metrics_ge(landmarks) ==
    LET shoulder_diff == IF landmarks.LEFT_SHOULDER < landmarks.RIGHT_SHOULDER
                         THEN landmarks.RIGHT_SHOULDER - landmarks.LEFT_SHOULDER
                         ELSE landmarks.LEFT_SHOULDER - landmarks.RIGHT_SHOULDER
        hip_diff == IF landmarks.LEFT_HIP < landmarks.RIGHT_HIP
                    THEN landmarks.RIGHT_HIP - landmarks.LEFT_HIP
                    ELSE landmarks.LEFT_HIP - landmarks.RIGHT_HIP
        knee_diff == IF landmarks.LEFT_KNEE < landmarks.RIGHT_KNEE
                     THEN landmarks.RIGHT_KNEE - landmarks.LEFT_KNEE
                     ELSE landmarks.LEFT_KNEE - landmarks.RIGHT_KNEE
        low_s == IF landmarks.LEFT_SHOULDER < landmarks.RIGHT_SHOULDER
                 THEN landmarks.LEFT_SHOULDER ELSE landmarks.RIGHT_SHOULDER
        low_h == IF landmarks.LEFT_HIP < landmarks.RIGHT_HIP
                 THEN landmarks.LEFT_HIP ELSE landmarks.RIGHT_HIP
        low_k == IF landmarks.LEFT_KNEE < landmarks.RIGHT_KNEE
                 THEN landmarks.LEFT_KNEE ELSE landmarks.RIGHT_KNEE
        s == shoulder_diff > 50
                 \/ (shoulder_diff = 50 /\ low_s \in DeltaTieAbove \cup DeltaTieEqual)
        h == hip_diff > 50
                 \/ (hip_diff = 50 /\ low_h \in DeltaTieAbove \cup DeltaTieEqual)
        k == knee_diff > 50
                 \/ (knee_diff = 50 /\ low_k \in DeltaTieAbove \cup DeltaTieEqual)
        score == 85 - (IF s THEN 10 ELSE 0) - (IF h THEN 10 ELSE 0)
                    - (IF k THEN 8 ELSE 0)
    IN  [score |-> IF score > 0 THEN score ELSE 0,
         issues |-> (IF s THEN <<"Shoulder imbalance detected">> ELSE <<>>)
                    \o (IF h THEN <<"Hip imbalance detected">> ELSE <<>>)
                    \o (IF k THEN <<"Knee imbalance detected">> ELSE <<>>),
         keypoints |-> landmarks]

base_score == 85

calculate_posture_metrics(landmarks) ==
    LET s == AboveThreshold(landmarks.LEFT_SHOULDER, landmarks.RIGHT_SHOULDER)
        h == AboveThreshold(landmarks.LEFT_HIP, landmarks.RIGHT_HIP)
        k == AboveThreshold(landmarks.LEFT_KNEE, landmarks.RIGHT_KNEE)
        score == base_score - (IF s THEN 10 ELSE 0) - (IF h THEN 10 ELSE 0)
                            - (IF k THEN 8 ELSE 0)
    IN  [score |-> Max(score, 0),
         issues |-> (IF s THEN <<"Shoulder imbalance detected">> ELSE <<>>)
                    \o (IF h THEN <<"Hip imbalance detected">> ELSE <<>>)
                    \o (IF k THEN <<"Knee imbalance detected">> ELSE <<>>),
         keypoints |-> landmarks]

Range(q) == {q[i] : i \in DOMAIN q}

\* the lists list(set(q)) can be: the distinct elements of q in any order
ListOfSet(q) ==
    {l \in [1..Cardinality(Range(q)) -> Range(q)] : Range(l) = Range(q)}

\* the loop "for frame in frames" over the first n frames: the totals so far
RECURSIVE PostureLoop(_, _)
PostureLoop(pf, n) ==
    IF n = 0 THEN [posture_score |-> 0, alignment_issues |-> <<>>, keypoints |-> <<>>]
    ELSE LET acc == PostureLoop(pf, n - 1)
             m == calculate_posture_metrics(pf[n].y)
         IN  IF pf[n].kind = "landmarks"
             THEN [posture_score |-> acc.posture_score + m.score,
                   alignment_issues |-> acc.alignment_issues \o m.issues,
                   keypoints |-> Append(acc.keypoints, m.keypoints)]
             ELSE acc

\* the same function without the set() of line 156
analyze_posture_keep_repeats(pf, listed) ==
    LET acc == PostureLoop(pf, Len(pf))
    IN  IF \E i \in DOMAIN pf : pf[i].kind = "raise"
        THEN Raised("PrimitiveFailure")
        ELSE Returned(
               [posture_score |-> IF Len(pf) > 0 THEN Rat(acc.posture_score, Len(pf))
                                  ELSE RatZero,
                alignment_issues |-> acc.alignment_issues,
                recommended_corrections |-> <<>>,
                keypoints |-> acc.keypoints])

\* the same function without the division of line 155
analyze_posture_no_average(pf, listed) ==
    LET acc == PostureLoop(pf, Len(pf))
    IN  IF \E i \in DOMAIN pf : pf[i].kind = "raise"
        THEN Raised("PrimitiveFailure")
        ELSE Returned(
               [posture_score |-> Rat(acc.posture_score, 1),
                alignment_issues |-> IF Len(pf) > 0 THEN listed ELSE acc.alignment_issues,
                recommended_corrections |-> <<>>,
                keypoints |-> acc.keypoints])

\* pf[j]: what pose.process gives for frame j; listed: the order in which
\* list(set(..)) enumerates the collected issues
analyze_posture(pf, listed) ==
    LET acc == PostureLoop(pf, Len(pf))
    IN  IF \E i \in DOMAIN pf : pf[i].kind = "raise"
        THEN Raised("PrimitiveFailure")
        ELSE Returned(
               [posture_score |-> IF Len(pf) > 0 THEN Rat(acc.posture_score, Len(pf))
                                  ELSE RatZero,
                alignment_issues |-> IF Len(pf) > 0 THEN listed ELSE acc.alignment_issues,
                recommended_corrections |-> <<>>,
                keypoints |-> acc.keypoints])

-----------------------------------------------------------------------------
(* Injury risk (ai_analysis.py) *)

GenericRecommendations ==
    <<"Focus on proper form during exercises",
      "Incorporate balance training",
      "Consider professional coaching for technique improvement">>

\* risk_score in tenths: the sums 0.3 (+0.3) (+0.2) (+0.1) of the floats are
\* the floats 0.3, 0.4, 0.5, 0.6, 0.7, 0.8, 0.9 (0.9 after the rounding to 2
\* decimals), and compare with 0.4 and 0.7 as the tenths do
RiskTenths(posture_analysis, skill_assessment) ==
    3 + (IF Len(posture_analysis.alignment_issues) > 2 THEN 3 ELSE 0)
      + (IF RatLess(posture_analysis.posture_score, Rat(70, 1)) THEN 2 ELSE 0)
      + (IF RatLess(skill_assessment.score, Rat(70, 1)) THEN 1 ELSE 0)

\* "x" in posture_analysis["alignment_issues"]: x is an element of the list
InList(x, l) == \E i \in DOMAIN l : l[i] = x

\* the same function with "risk_score <= 0.4" for the level low
predict_injury_risk_le(posture_analysis, skill_assessment) ==
    LET risk_score == RiskTenths(posture_analysis, skill_assessment)
        issues == posture_analysis.alignment_issues
    IN  [risk_level |-> IF risk_score <= 4 THEN "low"
                        ELSE IF risk_score < 7 THEN "medium" ELSE "high",
         risk_score |-> Rat(risk_score, 10),
         risk_factors |-> issues,
         prevention_recommendations |->
             GenericRecommendations
             \o (IF InList("Shoulder imbalance", issues)
                 THEN <<"Incorporate shoulder stability exercises">> ELSE <<>>)
             \o (IF InList("Hip imbalance", issues)
                 THEN <<"Add hip mobility and strengthening exercises">> ELSE <<>>)
             \o (IF InList("Knee imbalance", issues)
                 THEN <<"Focus on knee stabilization exercises">> ELSE <<>>)]

predict_injury_risk(posture_analysis, skill_assessment) ==
    LET risk_score == RiskTenths(posture_analysis, skill_assessment)
        issues == posture_analysis.alignment_issues
    IN  [risk_level |-> IF risk_score < 4 THEN "low"
                        ELSE IF risk_score < 7 THEN "medium" ELSE "high",
         risk_score |-> Rat(risk_score, 10),      \* round(risk_score, 2)
         risk_factors |-> issues,
         prevention_recommendations |->
             GenericRecommendations
             \o (IF InList("Shoulder imbalance", issues)
                 THEN <<"Incorporate shoulder stability exercises">> ELSE <<>>)
             \o (IF InList("Hip imbalance", issues)
                 THEN <<"Add hip mobility and strengthening exercises">> ELSE <<>>)
             \o (IF InList("Knee imbalance", issues)
                 THEN <<"Focus on knee stabilization exercises">> ELSE <<>>)]

-----------------------------------------------------------------------------
(* Skill assessment, gameplay and analyze_video (ai_analysis.py) *)

SportTypes == {"basketball", "tennis", "soccer", "baseball", "general"}

SkillTypes ==
    {"shooting", "dribbling", "defense", "serving", "swing", "kicking", "throwing",
     "gameplay", "general"}

\* score, confidence and feedback of an assessment; its two constant lists
\* strengths and areas_for_improvement are left out
Assessment(score, confidence, feedback) ==
    [score |-> Rat(score, 1), confidence |-> Rat(confidence, 100), feedback |-> feedback]

\* the same function with a dribbling score of 68
assess_skills_low_dribbling(sport_type, skill_type) ==
    CASE sport_type = "basketball" /\ skill_type = "shooting" ->
            Assessment(82, 87, "Good shooting form with consistent release. Elbow could be more aligned.")
      [] sport_type = "basketball" /\ skill_type = "dribbling" ->
            Assessment(68, 83, "Good ball control but could improve off-hand and protection.")
      [] sport_type = "basketball" /\ skill_type = "defense" ->
            Assessment(80, 82, "Good defensive stance but could improve lateral movement.")
      [] sport_type = "tennis" /\ skill_type = "serving" ->
            Assessment(79, 84, "Powerful serve but could improve consistency and ball toss.")
      [] sport_type = "tennis" /\ skill_type = "swing" ->
            Assessment(76, 81, "Good groundstrokes but could improve footwork and preparation.")
      [] sport_type = "soccer" /\ skill_type = "kicking" ->
            Assessment(81, 86, "Good kicking technique but could improve accuracy and power distribution.")
      [] sport_type = "baseball" /\ skill_type = "swing" ->
            Assessment(77, 83, "Good swing path but could improve timing and pitch recognition.")
      [] sport_type = "baseball" /\ skill_type = "throwing" ->
            Assessment(84, 88, "Strong throwing arm but could improve accuracy and mechanics.")
      [] OTHER ->
            Assessment(78, 85, "Good form overall. Focus on follow-through and balance.")

assess_skills(sport_type, skill_type) ==
    CASE sport_type = "basketball" /\ skill_type = "shooting" ->
            Assessment(82, 87, "Good shooting form with consistent release. Elbow could be more aligned.")
      [] sport_type = "basketball" /\ skill_type = "dribbling" ->
            Assessment(75, 83, "Good ball control but could improve off-hand and protection.")
      [] sport_type = "basketball" /\ skill_type = "defense" ->
            Assessment(80, 82, "Good defensive stance but could improve lateral movement.")
      [] sport_type = "tennis" /\ skill_type = "serving" ->
            Assessment(79, 84, "Powerful serve but could improve consistency and ball toss.")
      [] sport_type = "tennis" /\ skill_type = "swing" ->
            Assessment(76, 81, "Good groundstrokes but could improve footwork and preparation.")
      [] sport_type = "soccer" /\ skill_type = "kicking" ->
            Assessment(81, 86, "Good kicking technique but could improve accuracy and power distribution.")
      [] sport_type = "baseball" /\ skill_type = "swing" ->
            Assessment(77, 83, "Good swing path but could improve timing and pitch recognition.")
      [] sport_type = "baseball" /\ skill_type = "throwing" ->
            Assessment(84, 88, "Strong throwing arm but could improve accuracy and mechanics.")
      [] OTHER ->
            Assessment(78, 85, "Good form overall. Focus on follow-through and balance.")

\* the four scores of a GameplayAnalysis; its constant lists are left out
Gameplay(performance, tactical, decision, efficiency) ==
    [performance_score |-> Rat(performance, 1), tactical_awareness |-> Rat(tactical, 1),
     decision_making |-> Rat(decision, 1), efficiency |-> Rat(efficiency, 1)]

analyze_gameplay(sport_type) ==
    CASE sport_type = "basketball" -> Gameplay(82, 78, 80, 75)
      [] sport_type = "soccer" -> Gameplay(79, 81, 76, 72)
      [] sport_type = "tennis" -> Gameplay(85, 82, 79, 80)
      [] OTHER -> Gameplay(75, 70, 72, 68)

\* the same function with one fixed file name instead of the fresh name
\* NamedTemporaryFile makes
download_video_fixed_name(v, files) ==
    IF v.download_ok
    THEN [outcome |-> Returned(1), files |-> files \cup {1}]
    ELSE [outcome |-> Raised("HTTPError"), files |-> files]

\* v.download_ok: the GET succeeds with a success status.  The file made by
\* NamedTemporaryFile(delete=False) is named by a number not in files.
download_video(v, files) ==
    IF v.download_ok
    THEN LET name == Cardinality(files) + 1
         IN  [outcome |-> Returned(name), files |-> files \cup {name}]
    ELSE [outcome |-> Raised("HTTPError"), files |-> files]

\* the frames of a file of n frames, each named by its source index
SourceFrames(n) == [j \in 1..n |-> j - 1]

\* what pose.process gives for the frames extract_frames takes from v
SampledPoses(v) ==
    LET ids == extract_frames(SourceFrames(v.n_frames), v.openable, frame_interval_posture)
    IN  [k \in 1..Len(ids) |-> v.pose[ids[k]]]

\* analyze_video from the point where "await download_video(video_url)" of
\* line 67 resumes, to its end: lines 67-92 run without another await.
\* dl: how download_video ended (outcome) and the temporary files it left
\* (files); v: what lies behind video_url (download_ok, openable, n_frames,
\* and pose[i], what pose.process gives for source frame i) with the
\* arguments sport_type and skill_type; listed: the order list(set(..))
\* gives.
\* outcome: what the caller gets (analyzed_at, the time of the call, is left
\* out); logged: what logger.error received; files: the files afterwards.
AfterDownload(dl, v, listed) ==
    LET posture == analyze_posture(SampledPoses(v), listed)
        posture_analysis == posture.value
        skill_assessment == assess_skills(v.sport_type, v.skill_type)
        injury_risk == predict_injury_risk(posture_analysis, skill_assessment)
        gameplay_analysis ==
            IF v.skill_type = "gameplay" THEN analyze_gameplay(v.sport_type) ELSE NoValue
        failure == IF dl.outcome.raised THEN dl.outcome ELSE posture
    IN  IF failure.raised
        THEN [outcome |-> failure,       \* the except branch logs and re-raises
              logged |-> << [msg |-> "Video analysis failed", exc |-> failure.exc] >>,
              files |-> dl.files]
        ELSE [outcome |-> Returned(
                  [skill_assessment |-> skill_assessment,
                   posture_analysis |-> posture_analysis,
                   injury_risk_prediction |-> injury_risk,
                   gameplay_analysis |-> gameplay_analysis,
                   sport_type |-> v.sport_type,
                   skill_type |-> v.skill_type]),
              logged |-> <<>>,
              files |-> dl.files]

\* the whole call, from the call to the return or the exception
analyze_video(v, listed, files) == AfterDownload(download_video(v, files), v, listed)

-----------------------------------------------------------------------------
(* State machines: one call of a function on an input of its domain *)

SeqsUpTo(S, n) == UNION {[1..k -> S] : k \in 0..n}

NoVideo == [download_ok |-> FALSE, openable |-> FALSE, src |-> <<>>, flow |-> <<>>]

\* the frames a source video can consist of
SrcFrameSet == {Image(0), Image(1), Image(FramePixels)}

\* the number of consecutive pairs of the frames sampled from v
SampledPairs(src, openable) ==
    LET n == Len(extract_frames(src, openable, frame_interval_integrity))
    IN  IF n = 0 THEN 0 ELSE n - 1

Videos ==
    UNION {
        {[download_ok |-> d, openable |-> o, src |-> src, flow |-> flow] :
            d \in BOOLEAN, flow \in [1..SampledPairs(src, o) -> FlowSet]} :
        src \in SeqsUpTo(SrcFrameSet, MaxSrcFrames), o \in BOOLEAN}

\* the variables of the other calls, untouched
OthersIdle ==
    /\ pair_flow = <<>>
    /\ motion_result = NoValue
    /\ skill_in = NoValue
    /\ risk_result = NoValue
    /\ sample_in = NoValue
    /\ sample_result = NoValue
    /\ av_input = NoValue
    /\ av_result = NoValue
    /\ av_download = NoValue
    /\ tmp_files = {}
    /\ landmarks_in = NoValue
    /\ metrics_result = NoValue
    /\ disk = <<>>
    /\ runs = NoValue
    /\ db = NoValue
    /\ request = NoValue
    /\ response = NoValue
    /\ upload = NoValue
    /\ query = NoValue

\* detect_cheating(video_url)
Init ==
    /\ OthersIdle
    /\ pc = "idle"
    /\ video \in Videos
    /\ frames = <<>>
    /\ dup_result = NoValue
    /\ pose_frames = <<>>
    /\ posture_result = NoValue
    /\ dc_result = NoValue
    /\ log = <<>>

DetectCheating ==
    /\ pc = "idle"
    /\ LET r == detect_cheating(video)
       IN  /\ dc_result' = r.outcome
           /\ log' = log \o r.logged
    /\ pc' = "done"
    /\ UNCHANGED <<frames, dup_result, pose_frames, posture_result, video, otherVars>>

Next == DetectCheating

Spec == Init /\ [][Next]_vars

\* detect_frame_duplication(frames)
InitDup ==
    /\ OthersIdle
    /\ pc = "idle"
    /\ \/ frames \in SeqsUpTo(FrameSet, MaxFrames)
       \/ \E n \in (MaxFrames + 1)..MaxLongFrames : frames \in [1..n -> TwoFrames]
    /\ dup_result = NoValue
    /\ pose_frames = <<>>
    /\ posture_result = NoValue
    /\ video = NoVideo
    /\ dc_result = NoValue
    /\ log = <<>>

DetectFrameDuplication ==
    /\ pc = "idle"
    /\ dup_result' = detect_frame_duplication(frames)
    /\ pc' = "done"
    /\ UNCHANGED <<frames, pose_frames, posture_result, video, dc_result, log, otherVars>>

NextDup == DetectFrameDuplication

SpecDup == InitDup /\ [][NextDup]_vars

\* analyze_posture(frames)
InitPosture ==
    /\ OthersIdle
    /\ pc = "idle"
    /\ pose_frames \in SeqsUpTo(PoseSet, MaxPoseFrames)
    /\ posture_result = NoValue
    /\ frames = <<>>
    /\ dup_result = NoValue
    /\ video = NoVideo
    /\ dc_result = NoValue
    /\ log = <<>>

AnalyzePosture ==
    /\ pc = "idle"
    /\ \E listed \in ListOfSet(PostureLoop(pose_frames, Len(pose_frames)).alignment_issues) :
           posture_result' = analyze_posture(pose_frames, listed)
    /\ pc' = "done"
    /\ UNCHANGED <<frames, dup_result, pose_frames, video, dc_result, log, otherVars>>

NextPosture == AnalyzePosture

SpecPosture == InitPosture /\ [][NextPosture]_vars

-----------------------------------------------------------------------------
(* Properties of detect_cheating *)

\* an exception was raised inside the try block of the call
Failed == log # <<>>

\* C1: when anything fails inside detect_cheating, the caller gets no
\* exception but exactly the verdict {False, 0.0, ["Analysis failed"], 0, 0}.
C1_FailOpen ==
    (pc = "done" /\ Failed) =>
        /\ ~ dc_result.raised
        /\ dc_result.value = FailOpen

C1_Witness ==
    /\ pc = "done"
    /\ Failed
    /\ log[1].msg = "Cheat detection failed"
    /\ dc_result = Returned(FailOpen)

\* the download succeeds, the file opens and no primitive raises
NothingFails(v) ==
    /\ v.download_ok
    /\ v.openable
    /\ \A j \in DOMAIN v.flow : ~ v.flow[j].raises

SampledFrames(v) == extract_frames(v.src, v.openable, frame_interval_integrity)
DuplicationReport(v) == detect_frame_duplication(SampledFrames(v))
MotionReport(v) == detect_unnatural_movement(SampledFrames(v), v.flow).value

\* C2: in a run in which nothing fails, is_cheating_detected is true exactly
\* when the duplication report says is_duplicated or the motion report says
\* is_unnatural.
C2_CheatingIsOr ==
    (pc = "done" /\ NothingFails(video)) =>
        dc_result.value.is_cheating_detected =
            (DuplicationReport(video).is_duplicated \/ MotionReport(video).is_unnatural)

\* C3: the confidence of the verdict is the larger of the confidences of the
\* two reports, and lies in [0, 1].
C3_ConfidenceIsMax ==
    (pc = "done" /\ NothingFails(video)) =>
        /\ dc_result.value.confidence =
               PyMax(DuplicationReport(video).confidence, MotionReport(video).confidence)
        /\ ~ RatLess(dc_result.value.confidence, RatZero)
        /\ ~ RatLess(RatOne, dc_result.value.confidence)

\* C4: when nothing fails, detected_anomalies is the anomalies of the
\* duplication report followed by those of the motion report, all of them,
\* in their order.
C4_AnomaliesConcatenated ==
    (pc = "done" /\ NothingFails(video)) =>
        /\ dc_result.value.detected_anomalies =
               DuplicationReport(video).anomalies \o MotionReport(video).anomalies
        /\ Len(dc_result.value.detected_anomalies) =
               Len(DuplicationReport(video).anomalies) + Len(MotionReport(video).anomalies)

-----------------------------------------------------------------------------
(* Properties of detect_frame_duplication *)

Duplicate(f1, f2) ==
    SimExceeds(calculate_frame_similarity(f1, f2), threshold[1], threshold[2])

DuplicatePairs(fs) == {i \in 1..(Len(fs) - 1) : Duplicate(fs[i], fs[i + 1])}

\* C5: for n >= 2 frames, duplicate_count is the number of consecutive pairs
\* whose similarity exceeds 0.95, and is_duplicated holds exactly when
\* duplicate_count > n / 10.
C5_CountAndFlag ==
    (pc = "done" /\ Len(frames) >= 2) =>
        /\ dup_result.duplicate_count = Cardinality(DuplicatePairs(frames))
        /\ dup_result.is_duplicated <=> (10 * dup_result.duplicate_count > Len(frames))

\* ten frames with one duplicate pair: exactly 10%, not flagged
C5_Witness ==
    /\ pc = "done"
    /\ Len(frames) = 10
    /\ Cardinality(DuplicatePairs(frames)) = 1
    /\ dup_result.duplicate_count = 1
    /\ ~ dup_result.is_duplicated

\* C6: for n >= 2 frames, confidence is min(duplicate_count / n, 1.0), n the
\* number of frames, and lies in [0, 1].
C6_Confidence ==
    (pc = "done" /\ Len(frames) >= 2) =>
        /\ dup_result.confidence =
               (IF dup_result.duplicate_count >= Len(frames) THEN RatOne
                ELSE Rat(dup_result.duplicate_count, Len(frames)))
        /\ ~ RatLess(dup_result.confidence, RatZero)
        /\ ~ RatLess(RatOne, dup_result.confidence)

C6_Witness ==
    /\ pc = "done"
    /\ Len(frames) = 3
    /\ dup_result.duplicate_count = 2
    /\ dup_result.confidence = <<2, 3>>

\* C7: for 0 or 1 frames the report is is_duplicated false, confidence 0,
\* duplicate_count 0 and no anomalies.
C7_Degenerate ==
    (pc = "done" /\ Len(frames) < 2) =>
        dup_result = [is_duplicated |-> FALSE, confidence |-> RatZero,
                      duplicate_count |-> 0, anomalies |-> <<>>]

C7_Witness ==
    /\ pc = "done"
    /\ Len(frames) = 1
    /\ dup_result.duplicate_count = 0
    /\ dup_result.confidence = RatZero

\* C8: n >= 2 identical frames give duplicate_count n-1 and is_duplicated.
C8_IdenticalFrames ==
    (pc = "done" /\ Len(frames) >= 2 /\ \A i \in DOMAIN frames : frames[i] = frames[1]) =>
        /\ dup_result.duplicate_count = Len(frames) - 1
        /\ dup_result.is_duplicated

C8_Witness ==
    /\ pc = "done"
    /\ Len(frames) >= 3
    /\ \A i \in DOMAIN frames : frames[i] = frames[1]
    /\ dup_result.duplicate_count = Len(frames) - 1
    /\ dup_result.anomalies[1].tenths = 1000

-----------------------------------------------------------------------------
(* Properties of analyze_posture *)

WithLandmarks(pf) == {i \in DOMAIN pf : pf[i].kind = "landmarks"}

FrameScore(pf, i) == calculate_posture_metrics(pf[i].y).score
FrameIssues(pf, i) == Range(calculate_posture_metrics(pf[i].y).issues)

\* C9: posture_score is the mean of the scores of the frames that had
\* landmarks; with no such frame it is 0 and there are no issues.
C9_MeanOverLandmarkFrames ==
    (pc = "done" /\ ~ posture_result.raised) =>
        LET W == WithLandmarks(pose_frames)
        IN  IF W = {}
            THEN /\ posture_result.value.posture_score = RatZero
                 /\ posture_result.value.alignment_issues = <<>>
            ELSE posture_result.value.posture_score =
                     Rat(SumFn([i \in W |-> FrameScore(pose_frames, i)]), Cardinality(W))

\* C10: alignment_issues holds every tag raised by some frame, and each of
\* them once.
C10_IssuesAreASet ==
    (pc = "done" /\ ~ posture_result.raised) =>
        LET issues == posture_result.value.alignment_issues
        IN  /\ \A i, j \in DOMAIN issues : issues[i] = issues[j] => i = j
            /\ Range(issues) =
                   UNION {FrameIssues(pose_frames, i) : i \in WithLandmarks(pose_frames)}

C10_Witness ==
    /\ pc = "done"
    /\ ~ posture_result.raised
    /\ \E i, j \in WithLandmarks(pose_frames) :
           /\ i # j
           /\ FrameIssues(pose_frames, i) \cap FrameIssues(pose_frames, j) # {}
           /\ FrameIssues(pose_frames, i) # FrameIssues(pose_frames, j)
    /\ Len(posture_result.value.alignment_issues) >= 2

\* C11: posture_score lies in [0, 100], and is exactly 0 when no frame had
\* landmarks (the empty sequence included).
C11_ScoreRange ==
    (pc = "done" /\ ~ posture_result.raised) =>
        /\ ~ RatLess(posture_result.value.posture_score, RatZero)
        /\ ~ RatLess(Rat(100, 1), posture_result.value.posture_score)
        /\ WithLandmarks(pose_frames) = {} =>
               posture_result.value.posture_score = RatZero

C11_Witness ==
    /\ pc = "done"
    /\ ~ posture_result.raised
    /\ Len(pose_frames) = MaxPoseFrames
    /\ WithLandmarks(pose_frames) = DOMAIN pose_frames
    /\ posture_result.value.posture_score = Rat(base_score, 1)

-----------------------------------------------------------------------------
(* predict_injury_risk(posture_analysis, skill_assessment) *)

\* the tags calculate_posture_metrics produces
PostureTags ==
    {"Shoulder imbalance detected", "Hip imbalance detected", "Knee imbalance detected"}

\* the tags an alignment_issues argument is made of
RiskTags == PostureTags \cup {"Shoulder imbalance"}

Perms(S) == {l \in [1..Cardinality(S) -> S] : Range(l) = S}

IssueLists == UNION {Perms(S) : S \in SUBSET RiskTags}

PostureScores == {0, 60, 69, 70, 90}
SkillScores == {65, 69, 70, 75, 90}

InitRisk ==
    /\ pc = "idle"
    /\ posture_result \in
           {Returned([posture_score |-> Rat(p, 1), alignment_issues |-> l,
                      recommended_corrections |-> <<>>, keypoints |-> <<>>]) :
               p \in PostureScores, l \in IssueLists}
    /\ skill_in \in {[score |-> Rat(x, 1)] : x \in SkillScores}
    /\ risk_result = NoValue
    /\ frames = <<>>
    /\ dup_result = NoValue
    /\ pose_frames = <<>>
    /\ video = NoVideo
    /\ dc_result = NoValue
    /\ log = <<>>
    /\ pair_flow = <<>>
    /\ motion_result = NoValue
    /\ sample_in = NoValue
    /\ sample_result = NoValue
    /\ av_input = NoValue
    /\ av_result = NoValue
    /\ av_download = NoValue
    /\ tmp_files = {}
    /\ landmarks_in = NoValue
    /\ metrics_result = NoValue
    /\ disk = <<>>
    /\ runs = NoValue
    /\ db = NoValue
    /\ request = NoValue
    /\ response = NoValue
    /\ upload = NoValue
    /\ query = NoValue

PredictInjuryRisk ==
    /\ pc = "idle"
    /\ risk_result' = predict_injury_risk(posture_result.value, skill_in)
    /\ pc' = "done"
    /\ UNCHANGED <<frames, dup_result, pose_frames, posture_result, video, dc_result, log,
                   pair_flow, motion_result, skill_in, sample_in, sample_result,
                   av_input, av_result, av_download, tmp_files, landmarks_in, metrics_result, disk, runs, db, request, response, upload, query>>

NextRisk == PredictInjuryRisk

SpecRisk == InitRisk /\ [][NextRisk]_vars

RiskIssues == posture_result.value.alignment_issues
RiskPosture == posture_result.value.posture_score

\* C12: risk_score is 0.3, plus 0.3 for more than 2 issues, plus 0.2 for
\* posture_score < 70, plus 0.1 for a skill score < 70; risk_level is low
\* below 0.4, medium below 0.7, high otherwise; 3 tags with posture 60 and
\* skill 65 give 0.9 and high, no issue with posture 90 and skill 90 gives
\* 0.3 and low.
C12_RiskScore ==
    pc = "done" =>
        LET t == 3 + (IF Len(RiskIssues) > 2 THEN 3 ELSE 0)
                   + (IF RatLess(RiskPosture, Rat(70, 1)) THEN 2 ELSE 0)
                   + (IF RatLess(skill_in.score, Rat(70, 1)) THEN 1 ELSE 0)
        IN  /\ risk_result.risk_score = Rat(t, 10)
            /\ risk_result.risk_level = "low" <=> RatLess(risk_result.risk_score, Rat(4, 10))
            /\ risk_result.risk_level = "medium" <=>
                   /\ ~ RatLess(risk_result.risk_score, Rat(4, 10))
                   /\ RatLess(risk_result.risk_score, Rat(7, 10))
            /\ risk_result.risk_level = "high" <=>
                   ~ RatLess(risk_result.risk_score, Rat(7, 10))
            /\ (Len(RiskIssues) = 3 /\ RiskPosture = Rat(60, 1) /\ skill_in.score = Rat(65, 1))
                   => (risk_result.risk_score = Rat(9, 10) /\ risk_result.risk_level = "high")
            /\ (Len(RiskIssues) = 0 /\ RiskPosture = Rat(90, 1) /\ skill_in.score = Rat(90, 1))
                   => (risk_result.risk_score = Rat(3, 10) /\ risk_result.risk_level = "low")

C12_Witness ==
    /\ pc = "done"
    /\ Len(RiskIssues) = 3
    /\ RiskPosture = Rat(60, 1)
    /\ skill_in.score = Rat(65, 1)
    /\ risk_result.risk_score = Rat(9, 10)
    /\ risk_result.risk_level = "high"

\* the targeted recommendation of each imbalance tag of the posture analyzer
Targeted(issues) ==
    (IF InList("Shoulder imbalance detected", issues)
     THEN <<"Incorporate shoulder stability exercises">> ELSE <<>>)
    \o (IF InList("Hip imbalance detected", issues)
        THEN <<"Add hip mobility and strengthening exercises">> ELSE <<>>)
    \o (IF InList("Knee imbalance detected", issues)
        THEN <<"Focus on knee stabilization exercises">> ELSE <<>>)

\* C13: for the alignment_issues the posture analyzer produces, the
\* recommendations are the three generic entries followed by one targeted
\* entry per imbalance tag present: 3 plus the number of tags present.
C13_TargetedRecommendations ==
    (pc = "done" /\ Range(RiskIssues) \subseteq PostureTags) =>
        /\ risk_result.prevention_recommendations =
               GenericRecommendations \o Targeted(RiskIssues)
        /\ Len(risk_result.prevention_recommendations) = 3 + Cardinality(Range(RiskIssues))

-----------------------------------------------------------------------------
(* extract_frames(video_path, frame_interval) *)

InitSample ==
    /\ pc = "idle"
    /\ sample_in \in
           {[src |-> src, openable |-> o, frame_interval |-> k] :
               src \in SeqsUpTo(SrcFrameSet, MaxSampleSrc), o \in BOOLEAN, k \in 1..MaxStride}
    /\ sample_result = NoValue
    /\ frames = <<>>
    /\ dup_result = NoValue
    /\ pose_frames = <<>>
    /\ posture_result = NoValue
    /\ video = NoVideo
    /\ dc_result = NoValue
    /\ log = <<>>
    /\ pair_flow = <<>>
    /\ motion_result = NoValue
    /\ skill_in = NoValue
    /\ risk_result = NoValue
    /\ av_input = NoValue
    /\ av_result = NoValue
    /\ av_download = NoValue
    /\ tmp_files = {}
    /\ landmarks_in = NoValue
    /\ metrics_result = NoValue
    /\ disk = <<>>
    /\ runs = NoValue
    /\ db = NoValue
    /\ request = NoValue
    /\ response = NoValue
    /\ upload = NoValue
    /\ query = NoValue

\* the function has no raise and no call that raises on a capture that is
\* not open: it returns
ExtractFrames ==
    /\ pc = "idle"
    /\ sample_result' =
           Returned(extract_frames(sample_in.src, sample_in.openable, sample_in.frame_interval))
    /\ pc' = "done"
    /\ UNCHANGED <<frames, dup_result, pose_frames, posture_result, video, dc_result, log,
                   pair_flow, motion_result, skill_in, risk_result, sample_in,
                   av_input, av_result, av_download, tmp_files, landmarks_in, metrics_result, disk, runs, db, request, response, upload, query>>

NextSample == ExtractFrames

SpecSample == InitSample /\ [][NextSample]_vars

\* C14: for N decodable frames and stride k >= 1 the result is, in order,
\* the frames at source positions 0, k, 2k, .. below N, ceil(N/k) of them,
\* and the empty sequence when N = 0.
C14_EveryKth ==
    (pc = "done" /\ sample_in.openable) =>
        LET N == Len(sample_in.src)
            k == sample_in.frame_interval
            count == (N + k - 1) \div k
        IN  /\ ~ sample_result.raised
            /\ sample_result.value = [j \in 1..count |-> sample_in.src[(j - 1) * k + 1]]
            /\ N = 0 => sample_result.value = <<>>

C14_Witness ==
    /\ pc = "done"
    /\ sample_in.openable
    /\ Len(sample_in.src) = 5
    /\ sample_in.frame_interval = 2
    /\ sample_in.src[1] # sample_in.src[2]
    /\ sample_in.src[3] # sample_in.src[4]
    /\ Len(sample_result.value) = 3

\* C15: when the source cannot be opened, extract_frames fails with a
\* DecodeError that reaches its caller.
C15_DecodeError ==
    (pc = "done" /\ ~ sample_in.openable) =>
        /\ sample_result.raised
        /\ sample_result.exc = "DecodeError"

-----------------------------------------------------------------------------
(* analyze_video(video_url, sport_type, skill_type) *)

Balanced ==
    [LEFT_SHOULDER |-> LeftY, RIGHT_SHOULDER |-> LeftY, LEFT_HIP |-> LeftY,
     RIGHT_HIP |-> LeftY, LEFT_KNEE |-> LeftY, RIGHT_KNEE |-> LeftY]

Imbalanced ==
    [LEFT_SHOULDER |-> LeftY, RIGHT_SHOULDER |-> 440, LEFT_HIP |-> LeftY,
     RIGHT_HIP |-> 560, LEFT_KNEE |-> LeftY, RIGHT_KNEE |-> 560]

\* what pose.process gives for a frame of a video
VideoPoseSet ==
    {[kind |-> "none"], [kind |-> "raise"],
     [kind |-> "landmarks", y |-> Balanced], [kind |-> "landmarks", y |-> Imbalanced]}

\* the source indices of the frames extract_frames takes
SampledIds(n, openable) ==
    Range(extract_frames(SourceFrames(n), openable, frame_interval_posture))

AnalyzeInputs ==
    UNION {
        {[download_ok |-> d, openable |-> o, n_frames |-> n, pose |-> p,
          sport_type |-> sp, skill_type |-> sk] :
            d \in BOOLEAN, p \in [SampledIds(n, o) -> VideoPoseSet],
            sp \in SportTypes, sk \in SkillTypes} :
        n \in 0..MaxVideoFrames, o \in BOOLEAN}

InitAnalyze ==
    /\ pc = "idle"
    /\ av_input \in AnalyzeInputs
    /\ av_result = NoValue
    /\ av_download = NoValue
    /\ tmp_files = {}
    /\ landmarks_in = NoValue
    /\ metrics_result = NoValue
    /\ disk = <<>>
    /\ runs = NoValue
    /\ db = NoValue
    /\ request = NoValue
    /\ response = NoValue
    /\ upload = NoValue
    /\ query = NoValue
    /\ log = <<>>
    /\ frames = <<>>
    /\ dup_result = NoValue
    /\ pose_frames = <<>>
    /\ posture_result = NoValue
    /\ video = NoVideo
    /\ dc_result = NoValue
    /\ pair_flow = <<>>
    /\ motion_result = NoValue
    /\ skill_in = NoValue
    /\ risk_result = NoValue
    /\ sample_in = NoValue
    /\ sample_result = NoValue

AnalyzeUnchanged ==
    UNCHANGED <<frames, dup_result, pose_frames, posture_result, video, dc_result,
                pair_flow, motion_result, skill_in, risk_result, sample_in,
                sample_result, av_input, landmarks_in, metrics_result, disk, runs,
                db, request, response, upload, query>>

\* the call runs to its first suspension: download_video (line 67) opens
\* the client (line 96) and awaits client.get (line 97)
AnalyzeVideoCall ==
    /\ pc = "idle"
    /\ pc' = "client_get"
    /\ UNCHANGED <<av_result, av_download, tmp_files, log>>
    /\ AnalyzeUnchanged

\* the response arrives: raise_for_status raises, or the temporary file is
\* written and its name is on the way out (lines 98-103); either way the
\* exit of "async with" (line 96) closes the client and suspends again
DownloadVideoResponse ==
    /\ pc = "client_get"
    /\ LET dl == download_video(av_input, tmp_files)
       IN  /\ av_download' = dl.outcome
           /\ tmp_files' = dl.files
    /\ pc' = "client_exit"
    /\ UNCHANGED <<av_result, log>>
    /\ AnalyzeUnchanged

\* the client is closed: download_video ends, video_path is bound or the
\* exception arrives at line 67, and analyze_video runs to its end
AnalyzeVideoResume ==
    /\ pc = "client_exit"
    /\ \E listed \in ListOfSet(PostureLoop(SampledPoses(av_input),
                                           Len(SampledPoses(av_input))).alignment_issues) :
           LET r == AfterDownload([outcome |-> av_download, files |-> tmp_files],
                                  av_input, listed)
           IN  /\ av_result' = r.outcome
               /\ log' = log \o r.logged
               /\ tmp_files' = r.files
    /\ pc' = "done"
    /\ UNCHANGED av_download
    /\ AnalyzeUnchanged

NextAnalyze == AnalyzeVideoCall \/ DownloadVideoResponse \/ AnalyzeVideoResume

SpecAnalyze == InitAnalyze /\ [][NextAnalyze]_vars

\* C16: when a run has ended, by a return or by an exception, no temporary
\* file made by download_video during the run exists any more.
C16_TempFilesRemoved ==
    pc = "done" => tmp_files = {}

\* the frames of pf on which pose.process does not raise, in order
WithoutRaising(pf) ==
    LET idx == SelectIdx(Len(pf), {i \in DOMAIN pf : pf[i].kind # "raise"})
    IN  [k \in 1..Len(idx) |-> pf[idx[k]]]

\* C17: when the pose primitive raises on a frame, that frame is skipped and
\* the run returns a result computed from the other frames.
C17_PrimitiveFailureSkipped ==
    (pc = "done" /\ av_input.download_ok) =>
        /\ ~ av_result.raised
        /\ av_result.value.posture_analysis.keypoints =
               analyze_posture(WithoutRaising(SampledPoses(av_input)), <<>>).value.keypoints

-----------------------------------------------------------------------------
(* The four analyses on at most one frame *)

InitShort ==
    /\ pc = "idle"
    /\ \E n \in 0..1 :
           /\ frames \in [1..n -> FrameSet]
           /\ pose_frames \in [1..n -> PoseSet]
    /\ pair_flow = <<>>
    /\ skill_in \in {[score |-> Rat(x, 1)] : x \in SkillScores}
    /\ dup_result = NoValue
    /\ posture_result = NoValue
    /\ motion_result = NoValue
    /\ risk_result = NoValue
    /\ video = NoVideo
    /\ dc_result = NoValue
    /\ log = <<>>
    /\ sample_in = NoValue
    /\ sample_result = NoValue
    /\ av_input = NoValue
    /\ av_result = NoValue
    /\ av_download = NoValue
    /\ tmp_files = {}
    /\ landmarks_in = NoValue
    /\ metrics_result = NoValue
    /\ disk = <<>>
    /\ runs = NoValue
    /\ db = NoValue
    /\ request = NoValue
    /\ response = NoValue
    /\ upload = NoValue
    /\ query = NoValue

ShortPosture ==
    /\ posture_result = NoValue
    /\ \E listed \in ListOfSet(PostureLoop(pose_frames, Len(pose_frames)).alignment_issues) :
           posture_result' = analyze_posture(pose_frames, listed)
    /\ UNCHANGED <<pc, frames, dup_result, pose_frames, video, dc_result, log, otherVars>>

ShortDuplication ==
    /\ dup_result = NoValue
    /\ dup_result' = detect_frame_duplication(frames)
    /\ UNCHANGED <<pc, frames, pose_frames, posture_result, video, dc_result, log, otherVars>>

ShortMovement ==
    /\ motion_result = NoValue
    /\ motion_result' = detect_unnatural_movement(frames, pair_flow)
    /\ UNCHANGED <<pc, frames, dup_result, pose_frames, posture_result, video, dc_result, log,
                   pair_flow, skill_in, risk_result, sample_in, sample_result,
                   av_input, av_result, av_download, tmp_files, landmarks_in, metrics_result, disk, runs, db, request, response, upload, query>>

ShortRisk ==
    /\ risk_result = NoValue
    /\ posture_result # NoValue
    /\ ~ posture_result.raised
    /\ risk_result' = predict_injury_risk(posture_result.value, skill_in)
    /\ UNCHANGED <<pc, frames, dup_result, pose_frames, posture_result, video, dc_result, log,
                   pair_flow, motion_result, skill_in, sample_in, sample_result,
                   av_input, av_result, av_download, tmp_files, landmarks_in, metrics_result, disk, runs, db, request, response, upload, query>>

NextShort == ShortPosture \/ ShortDuplication \/ ShortMovement \/ ShortRisk

SpecShort == InitShort /\ [][NextShort]_vars

InUnit(x) == ~ RatLess(x, RatZero) /\ ~ RatLess(RatOne, x)

\* C18: on 0 frames and on 1 frame, analyze_posture, detect_frame_duplication,
\* detect_unnatural_movement and predict_injury_risk return a well-formed
\* result and do not raise (no division by zero); on 0 frames the
\* duplication and motion reports say false with confidence 0.
C18_ShortInputs ==
    /\ dup_result # NoValue =>
           /\ InUnit(dup_result.confidence)
           /\ dup_result.duplicate_count = 0
           /\ Len(frames) = 0 =>
                  (~ dup_result.is_duplicated /\ dup_result.confidence = RatZero)
    /\ motion_result # NoValue =>
           /\ ~ motion_result.raised
           /\ InUnit(motion_result.value.confidence)
           /\ Len(frames) = 0 =>
                  (~ motion_result.value.is_unnatural
                   /\ motion_result.value.confidence = RatZero)
    /\ (posture_result # NoValue /\ \A i \in DOMAIN pose_frames : pose_frames[i].kind # "raise") =>
           /\ ~ posture_result.raised
           /\ ~ RatLess(posture_result.value.posture_score, RatZero)
           /\ ~ RatLess(Rat(100, 1), posture_result.value.posture_score)
    /\ risk_result # NoValue =>
           /\ risk_result.risk_level \in {"low", "medium", "high"}
           /\ InUnit(risk_result.risk_score)

C18_Witness ==
    /\ Len(frames) = 1
    /\ dup_result # NoValue
    /\ motion_result # NoValue
    /\ posture_result # NoValue
    /\ risk_result # NoValue
    /\ ~ motion_result.raised
    /\ posture_result.value.posture_score = Rat(base_score, 1)

-----------------------------------------------------------------------------
(* detect_unnatural_movement(frames) *)

\* the outcomes of the flow primitive on n pairs: magnitudes on the first p
\* pairs, with the float32 outcome of each tie, and an exception on pair
\* p + 1 when p < n; the loop of line 117 ends there, so the pairs after it
\* have no outcome of their own and are listed like pair p + 1
MotionFlow(n, p, ms) ==
    [j \in 1..n |->
        IF j <= p
        THEN [raises |-> FALSE, magnitude |-> ms[j],
              tie_above |-> p = n /\ Float32TieAbove(ms, j)]
        ELSE [raises |-> TRUE, magnitude |-> 0, tie_above |-> FALSE]]

\* frames of constant content, and any outcome of the flow primitive on
\* each pair
InitMotion ==
    /\ pc = "idle"
    /\ \E n \in 0..MaxMotionFrames :
           /\ frames = [j \in 1..n |-> Image(0)]
           /\ \E p \in 0..(IF n = 0 THEN 0 ELSE n - 1) :
                  \E ms \in [1..p -> 0..MaxMotionMag] :
                      pair_flow = MotionFlow(IF n = 0 THEN 0 ELSE n - 1, p, ms)
    /\ motion_result = NoValue
    /\ dup_result = NoValue
    /\ pose_frames = <<>>
    /\ posture_result = NoValue
    /\ video = NoVideo
    /\ dc_result = NoValue
    /\ log = <<>>
    /\ skill_in = NoValue
    /\ risk_result = NoValue
    /\ sample_in = NoValue
    /\ sample_result = NoValue
    /\ av_input = NoValue
    /\ av_result = NoValue
    /\ av_download = NoValue
    /\ tmp_files = {}
    /\ landmarks_in = NoValue
    /\ metrics_result = NoValue
    /\ disk = <<>>
    /\ runs = NoValue
    /\ db = NoValue
    /\ request = NoValue
    /\ response = NoValue
    /\ upload = NoValue
    /\ query = NoValue

DetectUnnaturalMovement ==
    /\ pc = "idle"
    /\ motion_result' = detect_unnatural_movement(frames, pair_flow)
    /\ pc' = "done"
    /\ UNCHANGED <<frames, dup_result, pose_frames, posture_result, video, dc_result, log,
                   pair_flow, skill_in, risk_result, sample_in, sample_result,
                   av_input, av_result, av_download, tmp_files, landmarks_in, metrics_result, disk, runs, db, request, response, upload, query>>

NextMotion == DetectUnnaturalMovement

SpecMotion == InitMotion /\ [][NextMotion]_vars

NoFlowRaises == \A j \in DOMAIN pair_flow : ~ pair_flow[j].raises

\* C19: when all pair magnitudes are equal (0 for constant content), there
\* is no anomaly, is_unnatural is false and confidence is 0, for every
\* number of frames.
C19_ConstantMotion ==
    (/\ pc = "done"
     /\ NoFlowRaises
     /\ \A i, j \in DOMAIN pair_flow : pair_flow[i].magnitude = pair_flow[j].magnitude) =>
        /\ ~ motion_result.raised
        /\ motion_result.value.anomalies = <<>>
        /\ ~ motion_result.value.is_unnatural
        /\ motion_result.value.confidence = RatZero

C19_Witness ==
    /\ pc = "done"
    /\ NoFlowRaises
    /\ Len(pair_flow) >= 5
    /\ \A j \in DOMAIN pair_flow : pair_flow[j].magnitude = 0
    /\ motion_result.value.anomalies = <<>>
    /\ motion_result.value.confidence = RatZero

-----------------------------------------------------------------------------
(* detect_cheating on a video of 101 frames with one identical pair *)

\* a frame whose pixels all have the gray level g
Gray(g) == [px \in 1..FramePixels |-> g]

\* source frames 0..100 (src[i + 1] is source frame i): frames p and p + 1
\* are identical, every other consecutive pair has different content
E2ESource(p) == [k \in 1..101 |-> Gray(IF k - 1 <= p THEN k - 1 ELSE k - 2)]

E2EVideos ==
    {[download_ok |-> d, openable |-> o, src |-> E2ESource(p),
      flow |-> [j \in 1..SampledPairs(E2ESource(p), o) |->
                   [raises |-> FALSE, magnitude |-> m, tie_above |-> FALSE]]] :
        d \in BOOLEAN, o \in BOOLEAN, p \in 0..99, m \in 0..MaxMag}

InitE2E ==
    /\ OthersIdle
    /\ pc = "idle"
    /\ video \in E2EVideos
    /\ frames = <<>>
    /\ dup_result = NoValue
    /\ pose_frames = <<>>
    /\ posture_result = NoValue
    /\ dc_result = NoValue
    /\ log = <<>>

NextE2E == DetectCheating

SpecE2E == InitE2E /\ [][NextE2E]_vars

\* C20: for a 101-frame video whose source frames 50 and 51 are identical
\* and whose other consecutive pairs differ, the verdict has a confidence
\* above 0 and exactly one anomaly, which names frames 50 and 51.
C20_EndToEnd ==
    (/\ pc = "done"
     /\ video.download_ok
     /\ video.openable
     /\ video.src[51] = video.src[52]) =>
        /\ ~ dc_result.raised
        /\ RatLess(RatZero, dc_result.value.confidence)
        /\ Len(dc_result.value.detected_anomalies) = 1
        /\ dc_result.value.detected_anomalies[1].kind = "duplicate"
        /\ dc_result.value.detected_anomalies[1].first = 50
        /\ dc_result.value.detected_anomalies[1].second = 51

-----------------------------------------------------------------------------
(* Two calls of analyze_video on different videos, interleaved *)

Runs == {1, 2}

\* what the downloaded bytes hold: the part of v that is written to the file
Content(v) == [openable |-> v.openable, n_frames |-> v.n_frames, pose |-> v.pose]

\* lines 70-88 of analyze_video: the analyses of the extracted frames, given
\* as what pose.process answers on each of them
AnalysisOf(poses, sport_type, skill_type, listed) ==
    LET posture == analyze_posture(poses, listed)
        posture_analysis == posture.value
        skill_assessment == assess_skills(sport_type, skill_type)
        injury_risk == predict_injury_risk(posture_analysis, skill_assessment)
        gameplay_analysis ==
            IF skill_type = "gameplay" THEN analyze_gameplay(sport_type) ELSE NoValue
    IN  IF posture.raised THEN posture
        ELSE Returned(
               [skill_assessment |-> skill_assessment,
                posture_analysis |-> posture_analysis,
                injury_risk_prediction |-> injury_risk,
                gameplay_analysis |-> gameplay_analysis,
                sport_type |-> sport_type,
                skill_type |-> skill_type])

\* the videos of the interleaved calls
ConcInputs ==
    {v \in AnalyzeInputs :
        /\ v.openable
        /\ v.n_frames \in {0, 1, MaxVideoFrames}
        /\ v.sport_type = "basketball"
        /\ v.skill_type \in {"shooting", "gameplay"}}

InitConc ==
    /\ pc = "idle"
    /\ \E v1 \in ConcInputs, v2 \in ConcInputs :
           /\ v1 # v2
           /\ runs = [r \in Runs |->
                        [pc |-> "start", input |-> IF r = 1 THEN v1 ELSE v2,
                         download |-> NoValue, tmp_file |-> NoValue,
                         video_path |-> NoValue, frames |-> NoValue, result |-> NoValue]]
    /\ tmp_files = {}
    /\ landmarks_in = NoValue
    /\ metrics_result = NoValue
    /\ disk = <<>>
    /\ log = <<>>
    /\ db = NoValue
    /\ request = NoValue
    /\ response = NoValue
    /\ upload = NoValue
    /\ query = NoValue
    /\ av_input = NoValue
    /\ av_result = NoValue
    /\ av_download = NoValue
    /\ frames = <<>>
    /\ dup_result = NoValue
    /\ pose_frames = <<>>
    /\ posture_result = NoValue
    /\ video = NoVideo
    /\ dc_result = NoValue
    /\ pair_flow = <<>>
    /\ motion_result = NoValue
    /\ skill_in = NoValue
    /\ risk_result = NoValue
    /\ sample_in = NoValue
    /\ sample_result = NoValue

\* a bound local variable of a run (NoValue while unbound)
Local(x) == [value |-> x]

ConcUnchanged ==
    UNCHANGED <<pc, frames, dup_result, pose_frames, posture_result, video, dc_result,
                pair_flow, motion_result, skill_in, risk_result, sample_in, sample_result,
                av_input, av_result, av_download, landmarks_in, metrics_result, db, request, response, upload, query>>

\* run r starts and runs to its first suspension: download_video (line 67)
\* opens the client (line 96) and awaits client.get (line 97)
RunCall(r) ==
    /\ runs[r].pc = "start"
    /\ runs' = [runs EXCEPT ![r].pc = "client_get"]
    /\ UNCHANGED <<tmp_files, disk, log>>
    /\ ConcUnchanged

\* the response of run r arrives: raise_for_status raises, or the temporary
\* file is written (lines 98-103) and tmp_file, a local of download_video,
\* names it; video_path is not bound yet, the exit of "async with" (line
\* 96) suspends the run once more
RunResponse(r) ==
    /\ runs[r].pc = "client_get"
    /\ LET dl == download_video(runs[r].input, tmp_files)
       IN  IF dl.outcome.raised
           THEN /\ runs' = [runs EXCEPT ![r].pc = "client_exit",
                                        ![r].download = dl.outcome]
                /\ UNCHANGED <<tmp_files, disk>>
           ELSE /\ runs' = [runs EXCEPT ![r].pc = "client_exit",
                                        ![r].download = dl.outcome,
                                        ![r].tmp_file = Local(dl.outcome.value)]
                /\ tmp_files' = dl.files
                /\ disk' = [f \in dl.files |->
                              IF f = dl.outcome.value THEN Content(runs[r].input)
                              ELSE disk[f]]
    /\ UNCHANGED log
    /\ ConcUnchanged

\* run r resumes after the client is closed and runs to its end without
\* another suspension: the exception of download_video is logged and
\* raised again, or video_path is bound (line 67), the frames are read from
\* the file (line 70), analysed (lines 73-80) and the result is returned, or
\* the exception of an analysis is logged and raised again
RunResume(r) ==
    /\ runs[r].pc = "client_exit"
    /\ IF runs[r].download.raised
       THEN /\ runs' = [runs EXCEPT ![r].pc = "done", ![r].result = runs[r].download]
            /\ log' = Append(log, [msg |-> "Video analysis failed",
                                   exc |-> runs[r].download.exc])
       ELSE LET video_path == runs[r].download.value
                fs == SampledPoses(disk[video_path])
            IN  \E listed \in ListOfSet(PostureLoop(fs, Len(fs)).alignment_issues) :
                    LET out == AnalysisOf(fs, runs[r].input.sport_type,
                                          runs[r].input.skill_type, listed)
                    IN  /\ runs' = [runs EXCEPT ![r].pc = "done",
                                                ![r].video_path = Local(video_path),
                                                ![r].frames = Local(fs),
                                                ![r].result = out]
                        /\ log' = IF out.raised
                                  THEN Append(log, [msg |-> "Video analysis failed",
                                                    exc |-> out.exc])
                                  ELSE log
    /\ UNCHANGED <<tmp_files, disk>>
    /\ ConcUnchanged

NextConc == \E r \in Runs : RunCall(r) \/ RunResponse(r) \/ RunResume(r)

SpecConc == InitConc /\ [][NextConc]_vars

\* what analyze_video can return for v when it runs alone
AloneResults(v) ==
    {analyze_video(v, listed, {}).outcome :
        listed \in ListOfSet(PostureLoop(SampledPoses(v),
                                         Len(SampledPoses(v))).alignment_issues)}

\* C21: two interleaved runs on different videos share no mutable state:
\* the temporary file of a run, from the moment it is written, holds that
\* run's video and is no other run's file, the path a run reads is that of
\* its own file, the frames of a run are those of its own video, and a
\* finished run has a result it gives when run alone.
C21_RunsIsolated ==
    \A r \in Runs :
        /\ runs[r].tmp_file # NoValue =>
               /\ disk[runs[r].tmp_file.value] = Content(runs[r].input)
               /\ \A q \in Runs \ {r} : runs[q].tmp_file # runs[r].tmp_file
        /\ runs[r].video_path # NoValue => runs[r].video_path = runs[r].tmp_file
        /\ runs[r].frames # NoValue => runs[r].frames.value = SampledPoses(runs[r].input)
        /\ runs[r].pc = "done" => runs[r].result \in AloneResults(runs[r].input)

\* both runs held a written file before either resumed, and both returned
C21_Witness ==
    /\ \A r \in Runs : runs[r].pc = "done" /\ ~ runs[r].result.raised
    /\ runs[1].video_path = Local(2)
    /\ runs[2].video_path = Local(1)
    /\ runs[1].result # runs[2].result

-----------------------------------------------------------------------------
(* calculate_posture_metrics(landmarks) *)

\* y coordinates in thousandths on both sides of each pair: deltas of 0,
\* 1, 49, 51 and 100 and more, and 50 three times: 0.05 - 0.0 and
\* 0.1 - 0.05 are the double 0.05, 0.65 - 0.6 is a double above it
MetricYs == {0, 50, 51, 100, 600, 650}

MetricLandmarks ==
    [{"LEFT_SHOULDER", "RIGHT_SHOULDER", "LEFT_HIP", "RIGHT_HIP",
      "LEFT_KNEE", "RIGHT_KNEE"} -> MetricYs]

InitMetrics ==
    /\ pc = "idle"
    /\ landmarks_in \in MetricLandmarks
    /\ metrics_result = NoValue
    /\ tmp_files = {}
    /\ disk = <<>>
    /\ runs = NoValue
    /\ db = NoValue
    /\ request = NoValue
    /\ response = NoValue
    /\ upload = NoValue
    /\ query = NoValue
    /\ log = <<>>
    /\ av_input = NoValue
    /\ av_result = NoValue
    /\ av_download = NoValue
    /\ frames = <<>>
    /\ dup_result = NoValue
    /\ pose_frames = <<>>
    /\ posture_result = NoValue
    /\ video = NoVideo
    /\ dc_result = NoValue
    /\ pair_flow = <<>>
    /\ motion_result = NoValue
    /\ skill_in = NoValue
    /\ risk_result = NoValue
    /\ sample_in = NoValue
    /\ sample_result = NoValue

CalculatePostureMetrics ==
    /\ pc = "idle"
    /\ metrics_result' = calculate_posture_metrics(landmarks_in)
    /\ pc' = "done"
    /\ UNCHANGED <<frames, dup_result, pose_frames, posture_result, video, dc_result, log,
                   pair_flow, motion_result, skill_in, risk_result, sample_in, sample_result,
                   av_input, av_result, av_download, tmp_files, landmarks_in, disk, runs, db,
                   request, response, upload, query>>

NextMetrics == CalculatePostureMetrics

SpecMetrics == InitMetrics /\ [][NextMetrics]_vars

\* the y-delta the code computes, abs(a - b) on doubles, is above 0.05
Exceeds(a, b) ==
    \/ a - b > posture_threshold
    \/ b - a > posture_threshold
    \/ a - b = posture_threshold /\ b \in DeltaTieAbove
    \/ b - a = posture_threshold /\ a \in DeltaTieAbove

\* C22: calculate_posture_metrics starts from 85, subtracts 10, 10 and 8
\* for a shoulder, hip and knee y-delta above 0.05, never goes below 0, and
\* returns exactly one tag for each pair above the threshold; a delta of
\* exactly 0.05 gives no penalty and no tag.
C22_Penalties ==
    pc = "done" =>
        LET l == landmarks_in
            s == Exceeds(l.LEFT_SHOULDER, l.RIGHT_SHOULDER)
            h == Exceeds(l.LEFT_HIP, l.RIGHT_HIP)
            k == Exceeds(l.LEFT_KNEE, l.RIGHT_KNEE)
            issues == metrics_result.issues
            Count(tag) == Cardinality({i \in DOMAIN issues : issues[i] = tag})
        IN  /\ metrics_result.score >= 0
            /\ (~ s /\ ~ h /\ ~ k) => metrics_result.score = 85
            /\ (s /\ ~ h /\ ~ k) => metrics_result.score = 75
            /\ (~ s /\ h /\ ~ k) => metrics_result.score = 75
            /\ (~ s /\ ~ h /\ k) => metrics_result.score = 77
            /\ (s /\ h /\ ~ k) => metrics_result.score = 65
            /\ (s /\ ~ h /\ k) => metrics_result.score = 67
            /\ (~ s /\ h /\ k) => metrics_result.score = 67
            /\ (s /\ h /\ k) => metrics_result.score = 57
            /\ Count("Shoulder imbalance detected") = (IF s THEN 1 ELSE 0)
            /\ Count("Hip imbalance detected") = (IF h THEN 1 ELSE 0)
            /\ Count("Knee imbalance detected") = (IF k THEN 1 ELSE 0)
            /\ Len(issues) = Cardinality({x \in {1, 2, 3} :
                                 \/ x = 1 /\ s
                                 \/ x = 2 /\ h
                                 \/ x = 3 /\ k})

\* a shoulder delta of exactly 0.05, a hip delta above, a knee delta below
C22_Witness ==
    /\ pc = "done"
    /\ landmarks_in.LEFT_SHOULDER = 100
    /\ landmarks_in.RIGHT_SHOULDER = 50
    /\ landmarks_in.LEFT_HIP = 0
    /\ landmarks_in.RIGHT_HIP = 51
    /\ landmarks_in.LEFT_KNEE = 51
    /\ landmarks_in.RIGHT_KNEE = 100
    /\ metrics_result.score = 75
    /\ metrics_result.issues = <<"Hip imbalance detected">>

\* the magnitudes of the pairs, pair i (Python index) at position i + 1
Magnitudes == [j \in DOMAIN pair_flow |-> pair_flow[j].magnitude]

\* n times the deviation of pair i from the mean of all magnitudes
Deviation(i) == Len(pair_flow) * Magnitudes[i + 1] - SumFn(Magnitudes)

\* The criterion of the claim, on the magnitudes as real numbers: pair i
\* lies strictly more than 2 standard deviations from the mean,
\* (m_i - mean)^2 > 4 * (sum of (m_j - mean)^2) / n.  It is not the test the
\* code runs: line 127 compares rounded float32 values (Outlier in
\* detect_unnatural_movement, with tie_above), and the two differ where the
\* deviation is exactly 2 standard deviations.
FarFromMean(i) ==
    Len(pair_flow) * Deviation(i) * Deviation(i) >
        4 * SumFn([j \in DOMAIN pair_flow |-> Deviation(j - 1) * Deviation(j - 1)])

\* C23: the anomalies are exactly the pairs whose magnitude is more than 2
\* standard deviations from the mean of all magnitudes, each naming frames
\* i and i+1, in increasing order of i, and is_unnatural is true exactly
\* when there is an anomaly.
C23_Outliers ==
    (pc = "done" /\ NoFlowRaises) =>
        LET a == motion_result.value.anomalies
        IN  /\ ~ motion_result.raised
            /\ {a[k].first : k \in DOMAIN a} =
                   {i \in 0..(Len(pair_flow) - 1) : FarFromMean(i)}
            /\ \A k \in DOMAIN a : a[k].second = a[k].first + 1
            /\ \A k \in DOMAIN a : k > 1 => a[k - 1].first < a[k].first
            /\ motion_result.value.is_unnatural <=> (Len(a) > 0)

\* C24: the confidence of detect_unnatural_movement is
\* min(anomaly_count / pair_count, 1.0) when there is at least one pair,
\* and 0 when there is none (0 or 1 frames).
C24_MotionConfidence ==
    (pc = "done" /\ NoFlowRaises) =>
        LET c == motion_result.value.confidence
            anomaly_count == Len(motion_result.value.anomalies)
            pair_count == Len(pair_flow)
        IN  /\ Len(frames) <= 1 => c = RatZero
            /\ (Len(frames) > 1 /\ anomaly_count <= pair_count) =>
                   c[1] * pair_count = anomaly_count * c[2]
            /\ (Len(frames) > 1 /\ anomaly_count > pair_count) => c = RatOne

C24_Witness ==
    /\ pc = "done"
    /\ NoFlowRaises
    /\ Len(frames) = 7
    /\ motion_result.value.confidence = Rat(1, 6)

\* C25: the anomalies of detect_frame_duplication have exactly one entry for
\* each consecutive pair whose similarity exceeds 0.95, naming frames i-1
\* and i, in increasing order of i; their number is duplicate_count.
C25_AnomalyPerDuplicate ==
    pc = "done" =>
        LET a == dup_result.anomalies
        IN  /\ Len(a) = dup_result.duplicate_count
            /\ {a[k].second : k \in DOMAIN a} = DuplicatePairs(frames)
            /\ \A k \in DOMAIN a : a[k].first = a[k].second - 1
            /\ \A k \in DOMAIN a : k > 1 => a[k - 1].second < a[k].second

\* duplicates at pairs (0, 1) and (2, 3), none at (1, 2)
C25_Witness ==
    /\ pc = "done"
    /\ Len(frames) = 4
    /\ ~ Duplicate(frames[2], frames[3])
    /\ Len(dup_result.anomalies) = 2
    /\ dup_result.anomalies[1].first = 0
    /\ dup_result.anomalies[2].second = 3

\* C26: as the module is written, every call of detect_cheating returns the
\* fail-open verdict, whatever the URL and the video: the first statement
\* looks up download_video, which the module does not bind, and neither
\* detector is reached.
C26_AlwaysFailOpen ==
    pc = "done" =>
        /\ dc_result = Returned(FailOpen)
        /\ log = << [msg |-> "Cheat detection failed", exc |-> "NameError"] >>

\* a video that downloads, decodes and would be reported as duplicated
C26_Witness ==
    /\ pc = "done"
    /\ NothingFails(video)
    /\ DuplicationReport(video).is_duplicated
    /\ ~ dc_result.value.is_cheating_detected
    /\ dc_result.value.frames_analyzed = 0

\* C27: in exact arithmetic the number k of anomalies among n >= 1 pair
\* magnitudes satisfies 4 * k < n; so 4 or fewer pairs (none included) give
\* no anomaly, the confidence is below 0.25, and it is k / n itself, never
\* changed by the clamp at 1.0.
C27_FewOutliers ==
    (pc = "done" /\ NoFlowRaises) =>
        LET k == Len(motion_result.value.anomalies)
            n == Len(pair_flow)
            c == motion_result.value.confidence
        IN  /\ n >= 1 => 4 * k < n
            /\ n <= 4 => k = 0
            /\ RatLess(c, Rat(1, 4))
            /\ n >= 1 => c = Rat(k, n)
            /\ n = 0 => c = RatZero

\* five pairs of magnitude 1 after one of magnitude 0: the first is flagged
C27_Witness ==
    /\ pc = "done"
    /\ NoFlowRaises
    /\ Len(pair_flow) = 6
    /\ Magnitudes[1] = 0
    /\ \A j \in 2..6 : Magnitudes[j] = 1
    /\ Len(motion_result.value.anomalies) = 1
    /\ motion_result.value.anomalies[1].first = 0

-----------------------------------------------------------------------------
(* routers/videos.py: the handlers of the video routes, on one video_id *)

VideoStatus == {"uploaded", "processing", "completed", "failed"}
UserRole == {"athlete", "coach", "admin"}

\* lines 46-55: the row upload_video inserts for user u (filename,
\* original_name, sport_type, skill_type and the times are left out;
\* request.file stands for what is behind file_url)
UploadedRow(u) ==
    [user_id |-> u, status |-> "uploaded", error_message |-> "", analyzed |-> FALSE]

\* the rows of table videos a request can meet under video_id: none, or the
\* row of user "owner" in any status
StoredVideos ==
    {NoValue, UploadedRow("owner")} \cup
    {[user_id |-> "owner", status |-> s,
      error_message |-> IF s = "failed" THEN "earlier failure" ELSE "",
      analyzed |-> s = "completed"] : s \in VideoStatus \ {"uploaded"}}

\* the videos behind file_url
RouterFiles ==
    UNION {
        {[download_ok |-> d, openable |-> TRUE, n_frames |-> n, pose |-> p,
          sport_type |-> "general", skill_type |-> "general"] :
            d \in BOOLEAN, p \in [SampledIds(n, TRUE) -> VideoPoseSet]} :
        n \in {0, 1}}

\* the same file as detect_cheating reads it
CheatView(v) ==
    [download_ok |-> v.download_ok, openable |-> v.openable,
     src |-> [j \in 1..v.n_frames |-> Image(0)], flow |-> <<>>]

\* lines 101 and 174, 220: the caller owns the video or is admin or coach
Authorized(row, user_id, role) ==
    ~ (row.user_id # user_id /\ role \notin {"admin", "coach"})

\* lines 117-121: {**analysis_results, "cheat_detection": cheat_detection,
\* "analyzed_at": ...} (analyzed_at, the time of the call, is left out)
FullAnalysis(analysis_results, cheat_detection) ==
    [skill_assessment |-> analysis_results.skill_assessment,
     posture_analysis |-> analysis_results.posture_analysis,
     injury_risk_prediction |-> analysis_results.injury_risk_prediction,
     gameplay_analysis |-> analysis_results.gameplay_analysis,
     sport_type |-> analysis_results.sport_type,
     skill_type |-> analysis_results.skill_type,
     cheat_detection |-> cheat_detection]

\* lines 136 and 189, VideoAnalysis(**d): the pydantic models of
\* models/video.py lines 22-54 keep their declared fields and drop the
\* others (keypoints of posture_analysis, sport_type, skill_type).  The
\* values the analyses produce all validate.  Of SkillAssessment the
\* fields Assessment carries are listed.
VideoAnalysis(d) ==
    [skill_assessment |->
         [score |-> d.skill_assessment.score,
          confidence |-> d.skill_assessment.confidence,
          feedback |-> d.skill_assessment.feedback],
     posture_analysis |->
         [posture_score |-> d.posture_analysis.posture_score,
          alignment_issues |-> d.posture_analysis.alignment_issues,
          recommended_corrections |-> d.posture_analysis.recommended_corrections],
     injury_risk_prediction |->
         [risk_level |-> d.injury_risk_prediction.risk_level,
          risk_score |-> d.injury_risk_prediction.risk_score,
          risk_factors |-> d.injury_risk_prediction.risk_factors,
          prevention_recommendations |->
              d.injury_risk_prediction.prevention_recommendations],
     cheat_detection |->
         [is_cheating_detected |-> d.cheat_detection.is_cheating_detected,
          confidence |-> d.cheat_detection.confidence,
          detected_anomalies |-> d.cheat_detection.detected_anomalies,
          frames_analyzed |-> d.cheat_detection.frames_analyzed,
          duplicate_frames |-> d.cheat_detection.duplicate_frames],
     gameplay_analysis |-> d.gameplay_analysis]

\* lines 124-128: the row of table video_analyses
AnalysisRow(full_analysis) == [video_id |-> "video_id", analysis_data |-> full_analysis]

\* the file_url of a completed video as the earlier request found it: a
\* video without frames
EarlierFile ==
    [download_ok |-> TRUE, openable |-> TRUE, n_frames |-> 0, pose |-> <<>>,
     sport_type |-> "general", skill_type |-> "general"]

\* the row of video_analyses that the earlier request of a completed video
\* inserted (lines 111-128 on EarlierFile; detect_cheating gave its
\* fail-open verdict, as on every call)
EarlierRow ==
    AnalysisRow(FullAnalysis(analyze_video(EarlierFile, <<>>, {}).outcome.value,
                             FailOpen))

\* the rows of video_analyses stored with a row of videos: COMPLETED is
\* written after the insert (lines 124-134)
StoredAnalyses(row) ==
    IF row # NoValue /\ row.analyzed THEN << EarlierRow >> ELSE <<>>

\* lines 147-150
Error500 == [status_code |-> 500, detail |-> "Failed to analyze video"]

\* an exception that leaves the handler: the framework answers 500
ServerError500 == [status_code |-> 500, detail |-> "Internal Server Error"]

\* the request was cancelled at an await: no answer is sent
NoAnswer == [cancelled |-> TRUE]

\* line 139
HandlerLog(e) == [msg |-> "Video analysis error", exc |-> e]

\* lines 138-150, "except Exception as e": the error is logged, then
\* update(status FAILED, error_message str(e)).eq("id", video_id) is
\* executed and 500 is raised.  update_ok: the store accepts the update;
\* otherwise execute() raises inside the except branch, the row stays as it
\* is and the exception leaves the handler.
OnException(d, e, update_ok) ==
    [db |-> IF update_ok /\ d.video # NoValue
            THEN [d EXCEPT !.video.status = "failed", !.video.error_message = e]
            ELSE d,
     logged |-> << HandlerLog(e) >>,
     response |-> IF update_ok THEN Error500 ELSE ServerError500]

InitRouter ==
    /\ pc = "idle"
    /\ \E row \in StoredVideos :
           /\ db = [video |-> row, analyses |-> StoredAnalyses(row)]
           /\ \E u \in {"owner", "other"}, role \in UserRole, f \in RouterFiles :
                  request = [user_id |-> u, role |-> role, file |-> f,
                             stored_before |-> NoValue, processing_written |-> FALSE,
                             analysis_results |-> NoValue, exception |-> ""]
    /\ response = NoValue
    /\ upload = NoValue
    /\ query = NoValue
    /\ log = <<>>
    /\ tmp_files = {}
    /\ disk = <<>>
    /\ runs = NoValue
    /\ landmarks_in = NoValue
    /\ metrics_result = NoValue
    /\ av_input = NoValue
    /\ av_result = NoValue
    /\ av_download = NoValue
    /\ frames = <<>>
    /\ dup_result = NoValue
    /\ pose_frames = <<>>
    /\ posture_result = NoValue
    /\ video = NoVideo
    /\ dc_result = NoValue
    /\ pair_flow = <<>>
    /\ motion_result = NoValue
    /\ skill_in = NoValue
    /\ risk_result = NoValue
    /\ sample_in = NoValue
    /\ sample_result = NoValue

OtherModulesUnchanged ==
    UNCHANGED <<frames, dup_result, pose_frames, posture_result, video, pair_flow,
                motion_result, skill_in, risk_result, sample_in, sample_result,
                av_input, landmarks_in, metrics_result, disk, runs>>

\* what a step of analyze_uploaded_video leaves alone
RouterUnchanged ==
    /\ OtherModulesUnchanged
    /\ UNCHANGED <<upload, query>>

\* what the storage service does with a file (storage.py lines 15-45).  It
\* has no client and raises 503 before any await: get_supabase_client of
\* models/database.py lines 15-32 returns None, either because the
\* credentials are not set ("unavailable": a warning, no error message) or
\* because create_client raises ("create_raises": logged by logger.error).
\* Or the upload raises after "await file.read()", or it gives the public
\* URL.
StorageOutcomes == {"unavailable", "create_raises", "raises", "ok"}

\* models/database.py lines 28-29: what get_supabase_client logs before it
\* returns None
ClientLog(o) ==
    IF o = "create_raises"
    THEN << [msg |-> "Error initializing Supabase client", exc |-> "ValueError"] >>
    ELSE <<>>

\* storage.py lines 17-20 and 40-45: the HTTPException of the storage service
StorageError(o) ==
    IF o \in {"unavailable", "create_raises"} THEN "503: Storage service unavailable"
    ELSE "500: Failed to upload video: StorageError"

\* lines 72-77
UploadError500 == [status_code |-> 500, detail |-> "Failed to upload video"]

\* lines 30-34
UploadError400 == [status_code |-> 400, detail |-> "Only video files are allowed"]

\* line 73
UploadLog(e) == [msg |-> "Video upload error", exc |-> e]

\* what a step of upload_video leaves alone
UploadUnchanged ==
    /\ OtherModulesUnchanged
    /\ UNCHANGED <<pc, request, response, query, tmp_files, av_result, av_download,
                   dc_result>>

\* upload_video, lines 19-42, up to its first suspension: a file that is not
\* a video is refused with 400 before the try block; a storage service
\* without client raises before any await (after get_supabase_client logged
\* why, if create_client raised), and "except Exception" answers 500;
\* otherwise the call waits on "await file.read()" in
\* upload_video_to_supabase.  No row is under video_id yet.
UploadVideoCall ==
    /\ upload = NoValue
    /\ db.video = NoValue
    /\ \E u \in {"owner", "other"}, is_video \in BOOLEAN, o \in StorageOutcomes :
           LET call == [user_id |-> u, is_video |-> is_video, storage |-> o,
                        pc |-> "done", response |-> NoValue]
           IN  IF ~ is_video
               THEN /\ upload' = [call EXCEPT !.response = UploadError400]
                    /\ UNCHANGED log
               ELSE IF o \in {"unavailable", "create_raises"}
               THEN /\ upload' = [call EXCEPT !.response = UploadError500]
                    /\ log' = Append(log \o ClientLog(o), UploadLog(StorageError(o)))
               ELSE /\ upload' = [call EXCEPT !.pc = "file_read"]
                    /\ UNCHANGED log
    /\ UNCHANGED db
    /\ UploadUnchanged

\* upload_video resumes, lines 42-77 and storage.py lines 24-45.  The
\* storage upload raises (logged by the storage service, then by the
\* handler), or the insert of line 57 raises (insert_ok false): 500 and no
\* row.  Otherwise the row is inserted with status UPLOADED; its id is the
\* integer of the SERIAL column (models/database.py line 106), which
\* VideoUpload(id=video_id, ...) of line 60 refuses for "id: str"
\* (models/video.py line 13): the ValidationError is caught at line 72,
\* logged, and 500 is answered although the row is stored.
UploadVideoEnds ==
    /\ upload # NoValue
    /\ upload.pc = "file_read"
    /\ IF upload.storage = "raises"
       THEN /\ log' = (log \o << [msg |-> "Failed to upload video to Supabase",
                                   exc |-> "StorageError"] >>)
                          \o << UploadLog(StorageError(upload.storage)) >>
            /\ UNCHANGED db
       ELSE \E insert_ok \in BOOLEAN :
                IF ~ insert_ok
                THEN /\ log' = Append(log, UploadLog("APIError"))
                     /\ UNCHANGED db
                ELSE /\ db' = [db EXCEPT !.video = UploadedRow(upload.user_id)]
                     /\ log' = Append(log, UploadLog("ValidationError"))
    /\ upload' = [upload EXCEPT !.pc = "done", !.response = UploadError500]
    /\ UploadUnchanged

\* lines 87-111: the lookup, the two checks, the update to PROCESSING and the
\* call of analyze_video.  An execute() that raises (select_ok, processing_ok
\* false) and an HTTPException raised by a check are caught by "except
\* Exception" of the same function.
RequestStart ==
    /\ pc = "idle"
    /\ \E select_ok \in BOOLEAN, processing_ok \in BOOLEAN, update_ok \in BOOLEAN :
           LET e == IF ~ select_ok THEN "APIError"
                    ELSE IF db.video = NoValue THEN "404: Video not found"
                    ELSE IF ~ Authorized(db.video, request.user_id, request.role)
                    THEN "403: Not authorized to access this video"
                    ELSE IF ~ processing_ok THEN "APIError"
                    ELSE ""
           IN  /\ request' = [request EXCEPT
                                !.stored_before = IF select_ok THEN db.video ELSE NoValue,
                                !.processing_written = (e = ""),
                                !.exception = e]
               /\ IF e # ""
                  THEN /\ db' = OnException(db, e, update_ok).db
                       /\ log' = log \o OnException(db, e, update_ok).logged
                       /\ response' = OnException(db, e, update_ok).response
                       /\ pc' = "done"
                  ELSE /\ db' = [db EXCEPT !.video.status = "processing"]
                       /\ pc' = "analyze_video"
                       /\ UNCHANGED <<log, response>>
    /\ UNCHANGED <<tmp_files, av_result, av_download, dc_result>>
    /\ RouterUnchanged

\* line 111, analyze_video(file_url) waiting on client.get: the response
\* arrives, download_video raises or writes the temporary file, and the
\* exit of its "async with" suspends the request once more
AnalyzeVideoResponse ==
    /\ pc = "analyze_video"
    /\ LET dl == download_video(request.file, tmp_files)
       IN  /\ av_download' = dl.outcome
           /\ tmp_files' = dl.files
    /\ pc' = "analyze_video_exit"
    /\ UNCHANGED <<request, db, log, response, av_result, dc_result>>
    /\ RouterUnchanged

\* line 111: the request is cancelled while analyze_video waits (on
\* client.get, or on the exit of "async with").  CancelledError is not an
\* Exception: neither "except Exception" of analyze_video (ai_analysis.py
\* line 90) nor the one of line 138 catches it, nothing is logged and the
\* row is left as line 108 wrote it.
RequestCancelled ==
    /\ pc \in {"analyze_video", "analyze_video_exit"}
    /\ request' = [request EXCEPT !.exception = "CancelledError"]
    /\ response' = NoAnswer
    /\ pc' = "done"
    /\ UNCHANGED <<db, log, tmp_files, av_result, av_download, dc_result>>
    /\ RouterUnchanged

\* line 111: analyze_video(file_url) resumes and ends, by a return or by an
\* exception
AnalyzeVideoEnds ==
    /\ pc = "analyze_video_exit"
    /\ \E listed \in ListOfSet(PostureLoop(SampledPoses(request.file),
                                           Len(SampledPoses(request.file))).alignment_issues) :
           LET r == AfterDownload([outcome |-> av_download, files |-> tmp_files],
                                  request.file, listed)
           IN  /\ av_result' = r.outcome
               /\ tmp_files' = r.files
               /\ log' = (log \o r.logged)
                             \o (IF av_result'.raised
                                 THEN << HandlerLog(av_result'.exc) >> ELSE <<>>)
    /\ IF av_result'.raised
       THEN /\ \E update_ok \in BOOLEAN :
                   /\ db' = OnException(db, av_result'.exc, update_ok).db
                   /\ response' = OnException(db, av_result'.exc, update_ok).response
            /\ request' = [request EXCEPT !.exception = av_result'.exc]
            /\ pc' = "done"
       ELSE /\ request' = [request EXCEPT !.analysis_results = av_result'.value]
            /\ pc' = "detect_cheating"
            /\ UNCHANGED <<db, response>>
    /\ UNCHANGED <<dc_result, av_download>>
    /\ RouterUnchanged

\* lines 114-136: detect_cheating(file_url) ends, the analysis row is
\* inserted, the status is set to COMPLETED and the analysis is returned
\* as a VideoAnalysis.  insert_ok, completed_ok: the store accepts the
\* insert of lines 124-128 and the update of lines 131-134; an execute()
\* that raises is caught at line 138.
DetectCheatingEnds ==
    /\ pc = "detect_cheating"
    /\ dc_result' = detect_cheating(CheatView(request.file)).outcome
    /\ \E insert_ok \in BOOLEAN, completed_ok \in BOOLEAN, update_ok \in BOOLEAN :
           LET full_analysis == FullAnalysis(request.analysis_results, dc_result'.value)
               inserted == [db EXCEPT !.analyses = Append(@, AnalysisRow(full_analysis))]
               stored == IF insert_ok THEN inserted ELSE db
           IN  IF insert_ok /\ completed_ok
               THEN /\ db' = [inserted EXCEPT !.video.status = "completed",
                                              !.video.analyzed = TRUE]
                    /\ response' = [status_code |-> 200,
                                    body |-> VideoAnalysis(full_analysis)]
                    /\ log' = log \o detect_cheating(CheatView(request.file)).logged
                    /\ UNCHANGED request
               ELSE /\ db' = OnException(stored, "APIError", update_ok).db
                    /\ response' = OnException(stored, "APIError", update_ok).response
                    /\ log' = (log \o detect_cheating(CheatView(request.file)).logged)
                                  \o OnException(stored, "APIError", update_ok).logged
                    /\ request' = [request EXCEPT !.exception = "APIError"]
    /\ pc' = "done"
    /\ UNCHANGED <<tmp_files, av_result, av_download>>
    /\ RouterUnchanged

\* what a handler that only reads the tables leaves alone
ReadUnchanged ==
    /\ OtherModulesUnchanged
    /\ UNCHANGED <<pc, db, request, response, upload, tmp_files, av_result,
                   av_download, dc_result>>

\* lines 160-187 and 206-233, the same in get_video_analysis and
\* get_gameplay_feedback: what is raised before the analysis row is read
\* ("" when nothing is).  store_ok: no execute() raises.
LookupError(user_id, role, store_ok) ==
    IF ~ store_ok THEN "APIError"
    ELSE IF db.video = NoValue THEN "404: Video not found"
    ELSE IF ~ Authorized(db.video, user_id, role)
    THEN "403: Not authorized to access this video"
    ELSE IF db.analyses = <<>> THEN "404: Analysis not found for this video"
    ELSE ""

\* get_video_analysis, lines 152-196, which has no await: every exception,
\* the HTTPException 404 and 403 of the try block included, is logged and
\* answered with 500; otherwise the first row the select returns is
\* answered as a VideoAnalysis.  The select has no order, so the first row
\* is any of the stored ones.
GetVideoAnalysis ==
    /\ query = NoValue
    /\ \E u \in {"owner", "other"}, role \in UserRole, store_ok \in BOOLEAN :
           IF LookupError(u, role, store_ok) # ""
           THEN /\ log' = Append(log, [msg |-> "Get analysis error",
                                       exc |-> LookupError(u, role, store_ok)])
                /\ query' = [handler |-> "get_video_analysis",
                             response |-> [status_code |-> 500,
                                           detail |-> "Failed to retrieve analysis"]]
           ELSE /\ \E i \in DOMAIN db.analyses :
                       query' = [handler |-> "get_video_analysis",
                                 response |->
                                     [status_code |-> 200,
                                      body |-> VideoAnalysis(db.analyses[i].analysis_data)]]
                /\ UNCHANGED log
    /\ ReadUnchanged

\* get_gameplay_feedback, lines 198-251, which has no await.  Line 238
\* raises 404 for an analysis without gameplay_analysis (None); a stored
\* gameplay_analysis is the dict of GameplayAnalysis of ai_analysis.py
\* lines 41-48, which has none of the fields GameplayAnalysis of
\* models/gameplay.py lines 22-28 requires, so line 244 raises
\* ValidationError.  Every exception is logged and answered with 500.
GetGameplayFeedback ==
    /\ query = NoValue
    /\ \E u \in {"owner", "other"}, role \in UserRole, store_ok \in BOOLEAN :
           \E e \in IF LookupError(u, role, store_ok) # ""
                    THEN {LookupError(u, role, store_ok)}
                    ELSE {IF db.analyses[i].analysis_data.gameplay_analysis = NoValue
                          THEN "404: Gameplay analysis not available for this video"
                          ELSE "ValidationError" : i \in DOMAIN db.analyses} :
               /\ log' = Append(log, [msg |-> "Get gameplay feedback error", exc |-> e])
               /\ query' = [handler |-> "get_gameplay_feedback",
                            response |-> [status_code |-> 500,
                                          detail |-> "Failed to retrieve gameplay feedback"]]
    /\ ReadUnchanged

\* get_athlete_gameplay_feedback, lines 253-306, which has no await: 403
\* before the try block for a caller who is neither the athlete nor admin
\* or coach; a select that raises is logged and answered with 500.  Of the
\* athlete's videos the loop of lines 284-293 keeps those whose first
\* analysis row has a gameplay_analysis; the row under video_id is among
\* the selected ones when the athlete owns it (its skill_type, a form field
\* of the upload, is taken to be "gameplay").  A stored gameplay_analysis
\* fails GameplayAnalysis(**analysis) of line 291 as in
\* get_gameplay_feedback.
GetAthleteGameplayFeedback ==
    /\ query = NoValue
    /\ \E athlete_id \in {"owner", "other"}, u \in {"owner", "other"},
          role \in UserRole, store_ok \in BOOLEAN :
           IF athlete_id # u /\ role \notin {"admin", "coach"}
           THEN /\ query' = [handler |-> "get_athlete_gameplay_feedback",
                             response |-> [status_code |-> 403,
                                           detail |-> "Not authorized to access this data"]]
                /\ UNCHANGED log
           ELSE \E e \in IF ~ store_ok THEN {"APIError"}
                         ELSE IF db.video = NoValue \/ db.video.user_id # athlete_id
                                 \/ db.analyses = <<>>
                         THEN {""}
                         ELSE {IF db.analyses[i].analysis_data.gameplay_analysis = NoValue
                               THEN "" ELSE "ValidationError" : i \in DOMAIN db.analyses} :
                    IF e # ""
                    THEN /\ log' = Append(log, [msg |-> "Get athlete gameplay feedback error",
                                                exc |-> e])
                         /\ query' = [handler |-> "get_athlete_gameplay_feedback",
                                      response |->
                                          [status_code |-> 500,
                                           detail |-> "Failed to retrieve athlete gameplay feedback"]]
                    ELSE /\ query' = [handler |-> "get_athlete_gameplay_feedback",
                                      response |->
                                          [status_code |-> 200,
                                           body |-> [athlete_id |-> athlete_id,
                                                     gameplay_feedback |-> <<>>,
                                                     count |-> 0]]]
                         /\ UNCHANGED log
    /\ ReadUnchanged

NextRouter ==
    \/ UploadVideoCall \/ UploadVideoEnds
    \/ RequestStart \/ AnalyzeVideoResponse \/ RequestCancelled
    \/ AnalyzeVideoEnds \/ DetectCheatingEnds
    \/ GetVideoAnalysis \/ GetGameplayFeedback \/ GetAthleteGameplayFeedback

SpecRouter == InitRouter /\ [][NextRouter]_vars

FoundAndAuthorized ==
    /\ request.stored_before # NoValue
    /\ Authorized(request.stored_before, request.user_id, request.role)

\* C28: for a found and authorized video the status is PROCESSING while the
\* analysis runs; once PROCESSING was written the request ends with status
\* COMPLETED or FAILED; COMPLETED only after analyze_video returned and the
\* analysis row was inserted; after any exception the status is FAILED,
\* never PROCESSING.
C28_StatusLifecycle ==
    FoundAndAuthorized =>
        /\ pc \in {"analyze_video", "analyze_video_exit", "detect_cheating"} =>
               (request.processing_written /\ db.video.status = "processing")
        /\ (pc = "done" /\ request.processing_written) =>
               /\ db.video.status \in {"completed", "failed"}
               /\ db.video.status = "completed" =>
                      /\ request.exception = ""
                      /\ av_result # NoValue
                      /\ ~ av_result.raised
                      /\ response =
                             [status_code |-> 200,
                              body |-> VideoAnalysis(FullAnalysis(av_result.value,
                                                                  dc_result.value))]
                      /\ db.analyses =
                             Append(StoredAnalyses(request.stored_before),
                                    AnalysisRow(FullAnalysis(av_result.value,
                                                             dc_result.value)))
               /\ request.exception # "" => db.video.status = "failed"

\* C29: a request by a user who neither owns the video nor is admin or
\* coach leaves the stored row as it was (status and error_message) and
\* runs no analysis.
C29_UnauthorizedNoChange ==
    (/\ pc = "done"
     /\ request.stored_before # NoValue
     /\ ~ Authorized(request.stored_before, request.user_id, request.role)) =>
        /\ db.video.status = request.stored_before.status
        /\ db.video.error_message = request.stored_before.error_message
        /\ av_result = NoValue
        /\ av_download = NoValue
        /\ dc_result = NoValue
        /\ db.analyses = StoredAnalyses(request.stored_before)

\* C30: in every result of analyze_video the skill score is the one of
\* assess_skills and at least 75, so risk_score is 0.3, 0.5, 0.6 or 0.8
\* (the skill term is never added), risk_level is high exactly when more
\* than two alignment issues come with a posture_score below 70, and no
\* frames give risk_score 0.5 and risk_level medium.
C30_RiskInResults ==
    (pc = "done" /\ ~ av_result.raised) =>
        LET res == av_result.value
            risk == res.injury_risk_prediction
            many == Len(res.posture_analysis.alignment_issues) > 2
            weak == RatLess(res.posture_analysis.posture_score, Rat(70, 1))
        IN  /\ res.skill_assessment = assess_skills(av_input.sport_type, av_input.skill_type)
            /\ ~ RatLess(res.skill_assessment.score, Rat(75, 1))
            /\ risk.risk_score \in {Rat(3, 10), Rat(5, 10), Rat(6, 10), Rat(8, 10)}
            /\ risk.risk_score = Rat(3 + (IF many THEN 3 ELSE 0) + (IF weak THEN 2 ELSE 0), 10)
            /\ risk.risk_level = "high" <=> (many /\ weak)
            /\ SampledPoses(av_input) = <<>> =>
                   (risk.risk_score = Rat(5, 10) /\ risk.risk_level = "medium")

\* two sampled frames, one balanced and one with all three imbalances:
\* three issues with a mean score of 71, for the lowest skill score
C30_Witness ==
    /\ pc = "done"
    /\ ~ av_result.raised
    /\ av_input.sport_type = "basketball"
    /\ av_input.skill_type = "dribbling"
    /\ Len(av_result.value.posture_analysis.alignment_issues) = 3
    /\ av_result.value.posture_analysis.posture_score = Rat(71, 1)
    /\ av_result.value.injury_risk_prediction.risk_score = Rat(6, 10)
    /\ av_result.value.injury_risk_prediction.risk_level = "medium"

====
